---- MODULE Spec2Model ----
(***************************************************************************)
(* Steam ROM Manager automation: the automation run of                     *)
(* SteamROMManagerGUI (ui/main_window.py) with the SteamManager            *)
(* (core/steam_manager.py) and SRMRunner (core/srm_runner.py) operations   *)
(* it calls.  The presentation thread runs start_process; every accepted   *)
(* request starts one background thread that runs automation_process.      *)
(***************************************************************************)
EXTENDS Integers, Sequences, FiniteSets, Bags, TLC

\* ------------------------------------------------------------------ bounds

\* Number of runs (background threads) that may be started.
MaxRuns == 2

\* Number of "path not configured" error lines start_process may add.
MaxNotConfigured == 2

\* Number of processes with a Steam name the system may hold.
MaxProcs == 2

\* Number of SteamManager operations called one after the other.
MaxCalls == 2

\* Most lines the export and copy commands write to one log.
MaxCommandLines == 1

Runs == 1..MaxRuns

\* ------------------------------------------------------- program constants

\* AppConfig.timeout_steam default, handed to SteamManager(timeout).
timeout_steam == 30

\* AppConfig.timeout_srm default, handed to SRMRunner(srm_path, timeout).
timeout_srm == 120

None == "None"

\* The attributes class Constants defines.
ConstantsAttributes ==
    { "STEAM_PROCESSES", "DEFAULT_TIMEOUTS", "UI_DIMENSIONS", "CONFIG_FILE",
      "LEGACY_CONFIG_FILE", "LOG_FILE", "COMMON_SRM_PATHS",
      "COMMON_STEAM_PATHS", "LOG_LEVEL_MAPPING", "STATUS_COLORS" }

\* ProcessStatus
READY == "ready"
RUNNING == "running"
SUCCESS == "success"
FAILED == "failed"
CANCELLED == "cancelled"

ProcessStatus == {READY, RUNNING, SUCCESS, FAILED, CANCELLED}

\* LogLevel
INFO == "info"
LVL_SUCCESS == "success"
WARNING == "warning"
ERROR == "error"

\* tk.NORMAL / tk.DISABLED
NORMAL == "normal"
DISABLED == "disabled"

\* ------------------------------------------------------------------- state

VARIABLES
    status,                       \* SteamROMManagerGUI.status
    process_count,                \* SteamROMManagerGUI.process_count
    srm_runner,                   \* SteamROMManagerGUI.srm_runner (None or configured)
    is_windows,                   \* sys.platform.startswith('win')
    log,                          \* lines of LogSection.output_text
    progress,                     \* last ProgressSection.update_progress <<step, percentage>>
    start_button_state,           \* SimpleComponents.start_button state
    was_running_before_shutdown,  \* SteamManager.was_running_before_shutdown
    steam_executable_path,        \* SteamManager.steam_executable_path
    ui_event,                     \* what the last user command did
    pc,                           \* position of each run's thread in automation_process
    calls,                        \* per run: the operations it has called, in order
    shutdown_result,              \* per run: what graceful_shutdown gave
    verify_result,                \* per run: what the step-2 is_running() gave
    tool_result,                  \* per run: what execute_command gave
    outcome,                      \* per run: the terminal status the run set
    run_progress,                 \* per run: its last progress update
    timeout,                      \* SteamManager.timeout
    max_wait,                     \* wait_for_closure: max_wait, in ticks
    wait_time,                    \* wait_for_closure: wait_time, in ticks
    total_waited,                 \* wait_for_closure: total_waited, in ticks
    wait_pc,                      \* position of the wait_for_closure call
    wait_result,                  \* what wait_for_closure returned
    polls,                        \* is_running() calls made by wait_for_closure
    procs,                        \* pids of the running processes with a Steam name
    op,                           \* the last SteamManager operation called directly
    n_calls,                      \* number of operations called directly
    config_file,                  \* the file at ConfigManager.config_file
    legacy_file,                  \* the file at the legacy config path
    environ,                      \* the SRM_* variables of os.environ
    gui_srm_path,                 \* SteamROMManagerGUI.srm_path
    config_srm_path,              \* ConfigManager.config.srm_path
    dialog                        \* the settings window: none, partial, complete

vars == << status, process_count, srm_runner, is_windows, log, progress, start_button_state,
           was_running_before_shutdown, steam_executable_path, ui_event,
           pc, calls, shutdown_result, verify_result, tool_result, outcome,
           run_progress, timeout, max_wait, wait_time, total_waited, wait_pc,
           wait_result, polls, procs, op, n_calls, config_file, legacy_file,
           environ,
           gui_srm_path, config_srm_path, dialog >>

gui_vars == << status, process_count, log, progress, start_button_state >>
steam_vars == << was_running_before_shutdown, steam_executable_path >>
config_vars == << srm_runner, is_windows, gui_srm_path, config_srm_path,
                 dialog >>
run_vars == << pc, calls, shutdown_result, verify_result, tool_result, outcome,
               run_progress >>
wait_vars == << max_wait, wait_time, total_waited, wait_pc, wait_result, polls >>

\* The state of the operations a run does not step through: the run only
\* sees what they return.
steam_env_vars == << procs, op, n_calls >>
settings_vars == << config_file, legacy_file, environ >>
component_vars == << timeout, wait_vars, steam_env_vars, settings_vars >>

\* ------------------------------------------------------------------ helpers

Range(s) == { s[i] : i \in DOMAIN s }

\* str.lower() on the characters the texts are made of.
lower(c) ==
    CASE c = "E" -> "e" [] c = "X" -> "x" [] c = "D" -> "d" [] c = "S" -> "s"
      [] OTHER -> c

Lower(text) == [i \in DOMAIN text |-> lower(text[i])]

\* One line of the log widget: level tag, message text, formatted argument.
Line(level, text, arg) == [level |-> level, text |-> text, arg |-> arg]

NoArg == << >>

\* str.strip() on a sequence of characters: drops leading and trailing blanks.
RECURSIVE LStrip(_)
LStrip(s) == IF s # << >> /\ Head(s) = " " THEN LStrip(Tail(s)) ELSE s

RECURSIVE RStrip(_)
RStrip(s) ==
    IF s # << >> /\ s[Len(s)] = " " THEN RStrip(SubSeq(s, 1, Len(s) - 1)) ELSE s

\* str.rstrip() in the place of str.strip(): the leading blanks stay.
strip_trailing_only(s) == RStrip(s)

Strip(s) == RStrip(LStrip(s))

\* The bag holding the elements of a sequence.
RECURSIVE SeqToBag(_)
SeqToBag(q) ==
    IF q = << >> THEN EmptyBag
    ELSE SetToBag({Head(q)}) (+) SeqToBag(Tail(q))

\* LogSection.log_message, for the lines one step writes, and clear_log.  The
\* content of the text widget is kept as the bag of its lines.
log_message(content, lines) == content (+) SeqToBag(lines)

clear_log(content) == EmptyBag

\* ------------------------------------------------------------ SteamManager

\* The sequence of the elements of a set of pids, lowest first: the order in
\* which psutil.process_iter yields the processes.
RECURSIVE Ascending(_)
Ascending(S) ==
    IF S = {} THEN << >>
    ELSE LET m == CHOOSE x \in S : \A y \in S : x <= y
         IN << m >> \o Ascending(S \ {m})

\* What proc.terminate() / proc.kill() can do: succeed, or raise
\* psutil.NoSuchProcess, psutil.AccessDenied or another exception.
SignalOutcomes == { "ok", "NoSuchProcess", "AccessDenied", "error" }

\* A pass that stops at the first call that raises another exception.
signal_pass_aborting(enumerated, sig, outcomes) ==
    LET q == Ascending(enumerated)
        errors == { i \in 1..Len(q) : outcomes[q[i]] = "error" }
        last == IF errors = {} THEN Len(q)
                ELSE CHOOSE i \in errors : \A j \in errors : i <= j
    IN [i \in 1..last |-> [pid |-> q[i], sig |-> sig, outcome |-> outcomes[q[i]]]]

\* One pass of "for proc in ...: proc.<sig>()" over the enumerated
\* processes: the signals sent, with what each call did.
signal_pass(enumerated, sig, outcomes) ==
    LET q == Ascending(enumerated) IN
    [i \in 1..Len(q) |-> [pid |-> q[i], sig |-> sig, outcome |-> outcomes[q[i]]]]

\* A pass that counts every exception of a call as a failure.
phase_ok_strict(enumerated, outcomes) ==
    \A p \in enumerated : outcomes[p] = "ok"

\* The success flag after one pass: only an exception other than
\* NoSuchProcess and AccessDenied clears it.
phase_ok(enumerated, outcomes) ==
    \A p \in enumerated : outcomes[p] # "error"

\* What a kill_processes call does besides sending signals.
Step(name, gave) == [pid |-> 0, sig |-> name, outcome |-> gave]

\* kill_processes from line 47 on: terminate every process, sleep 1 s,
\* enumerate again and kill what is left.  first and second are what the two
\* _get_steam_processes() calls gave; an exception of the second leaves
\* kill_processes.
kill_phases(first, term, second, kills) ==
    LET terms == signal_pass(first.found, "terminate", term)
        until_kills == << Step("enumerate", first.exc) >> \o terms
                       \o << Step("sleep", "none"),
                              Step("enumerate", second.exc) >>
    IN IF second.exc # "none"
       THEN [exc |-> second.exc, result |-> FALSE, signals |-> terms,
             steps |-> until_kills, sleeps |-> 1, enumerations |-> 2]
       ELSE LET forced == signal_pass(second.found, "kill", kills)
            IN [exc |-> "none",
                result |-> /\ phase_ok(first.found, term)
                           /\ phase_ok(second.found, kills),
                signals |-> terms \o forced, steps |-> until_kills \o forced,
                sleeps |-> 1, enumerations |-> 2]

\* kill_processes without the early return on an empty enumeration.
kill_processes_unguarded(first, term, second, kills) ==
    kill_phases(first, term, second, kills)

\* SteamManager.kill_processes: first is what the first enumeration gave,
\* term what each terminate() did, second what the enumeration after the
\* settle delay gave, kills what each kill() did.
kill_processes(first, term, second, kills) ==
    IF first.exc # "none"
    THEN [exc |-> first.exc, result |-> FALSE, signals |-> << >>,
          steps |-> << Step("enumerate", first.exc) >>, sleeps |-> 0,
          enumerations |-> 1]
    ELSE IF first.found = {}
    THEN [exc |-> "none", result |-> TRUE, signals |-> << >>,
          steps |-> << Step("enumerate", "none") >>, sleeps |-> 0,
          enumerations |-> 1]
    ELSE kill_phases(first, term, second, kills)

\* What a graceful_shutdown call meets: is_running() at its first check, the
\* outcome of the executable probes, of kill_processes and of wait_for_closure.
ShutdownEnvs ==
    [running : BOOLEAN, probe : {None, "steam.exe"},
     kill_exc : {"none", "AttributeError"}, killed : BOOLEAN, closed : BOOLEAN]

\* SteamManager.find_steam_executable: reads Constants.COMMON_STEAM_EXECUTABLE_PATHS
\* first; an attribute the class does not define raises AttributeError.
find_steam_executable(probe) ==
    IF "COMMON_STEAM_EXECUTABLE_PATHS" \notin ConstantsAttributes
    THEN [exc |-> "AttributeError", path |-> None]
    ELSE [exc |-> "none", path |-> probe]

\* SteamManager.graceful_shutdown: the value returned or the exception raised,
\* with the fields of SteamManager it leaves behind (old_path: the path before).
\* The part after the first is_running() check, lines 97 to 109.
shutdown_when_running(env, old_path) ==
    LET f == find_steam_executable(env.probe) IN
    IF f.exc # "none"
    THEN [exc |-> f.exc, success |-> FALSE,
          message |-> "type object 'Constants' has no attribute",
          arg |-> NoArg, was_running |-> TRUE, path |-> old_path,
          called |-> << "find_steam_executable" >>]
    ELSE IF env.kill_exc # "none"
    THEN [exc |-> env.kill_exc, success |-> FALSE,
          message |-> "'NoneType' object has no attribute 'lower'",
          arg |-> NoArg, was_running |-> TRUE, path |-> f.path,
          called |-> << "find_steam_executable", "kill_processes" >>]
    ELSE IF ~env.killed
    THEN [exc |-> "none", success |-> FALSE,
          message |-> "Failed to terminate Steam processes",
          arg |-> NoArg, was_running |-> TRUE, path |-> f.path,
          called |-> << "find_steam_executable", "kill_processes" >>]
    ELSE IF ~env.closed
    THEN [exc |-> "none", success |-> FALSE,
          message |-> "Steam still running after timeout",
          arg |-> << ToString(timeout_steam) >>, was_running |-> TRUE,
          path |-> f.path,
          called |-> << "find_steam_executable", "kill_processes",
                        "wait_for_closure" >>]
    ELSE [exc |-> "none", success |-> TRUE,
          message |-> "Steam closed successfully", arg |-> NoArg,
          was_running |-> TRUE, path |-> f.path,
          called |-> << "find_steam_executable", "kill_processes",
                        "wait_for_closure" >>]

\* graceful_shutdown without its first is_running() check.
graceful_shutdown_unchecked(env, old_path) == shutdown_when_running(env, old_path)

graceful_shutdown(env, old_path) ==
    IF ~env.running
    THEN [exc |-> "none", success |-> TRUE, message |-> "Steam not running",
          arg |-> NoArg, was_running |-> FALSE, path |-> old_path,
          called |-> << >>]
    ELSE shutdown_when_running(env, old_path)

\* Everything a graceful_shutdown call can give.
ShutdownResultsFrom ==
    [old_path \in {None, "steam.exe"} |->
        { graceful_shutdown(env, old_path) : env \in ShutdownEnvs }]

ShutdownResults(old_path) == ShutdownResultsFrom[old_path]

\* bool(text) of an optional text: None and the empty text are false.
truthy(text) == text # None /\ text # ""

\* SteamManager.start_steam(steam_path): stored is steam_executable_path,
\* probe what a discovery finds, exists whether the resolved path exists,
\* popen what subprocess.Popen does and running what is_running() gives after
\* the 2 s delay.  The discovery runs outside the try statement.
start_steam(steam_path, stored, probe, exists, popen, running) ==
    LET discover == ~truthy(steam_path) /\ ~truthy(stored)
        f == find_steam_executable(probe)
        resolved == IF truthy(steam_path) THEN steam_path
                    ELSE IF truthy(stored) THEN stored
                    ELSE f.path
        base == [exc |-> "none", success |-> FALSE, message |-> "",
                 arg |-> NoArg, resolved |-> resolved, discovered |-> discover,
                 launched |-> FALSE, slept |-> 0]
    IN IF discover /\ f.exc # "none"
       THEN [base EXCEPT !.exc = f.exc, !.resolved = None,
                         !.message = "type object 'Constants' has no attribute"]
       ELSE IF ~truthy(resolved)
       THEN [base EXCEPT !.message = "Steam executable not found"]
       ELSE IF ~exists
       THEN [base EXCEPT !.message = "Steam executable not found at",
                         !.arg = << resolved >>]
       ELSE IF popen # "ok"
       THEN [base EXCEPT !.message = "Failed to start Steam", !.arg = << popen >>]
       ELSE IF running
       THEN [base EXCEPT !.success = TRUE, !.launched = TRUE, !.slept = 2,
                         !.message = "Steam started successfully"]
       ELSE [base EXCEPT !.launched = TRUE, !.slept = 2,
                         !.message = "Steam process started but not detected as running"]

\* --------------------------------------------------------------- SRMRunner

\* What the file system holds at SRMRunner.srm_path, and whether the text of
\* the path ends with .exe in any case; error: the stat call raises OSError.
PathStates ==
    { p \in [exists : BOOLEAN, is_file : BOOLEAN, exe_suffix : BOOLEAN,
              error : BOOLEAN] :
        /\ p.is_file => p.exists
        /\ p.error => ~p.exists }

\* bool(self.srm_path): srm_path is a pathlib.Path, which defines neither
\* __bool__ nor __len__, so that every Path is true.
path_truthy(p) == TRUE

\* SRMRunner.validate_path: <<is_valid, message>>.
validate_path(p, win) ==
    IF ~path_truthy(p) THEN << FALSE, "No SRM path specified" >>
    ELSE IF p.error THEN << FALSE, "Invalid path" >>
    ELSE IF ~p.exists THEN << FALSE, "File does not exist" >>
    ELSE IF ~p.is_file THEN << FALSE, "Path is not a file" >>
    ELSE IF win /\ ~p.exe_suffix
    THEN << FALSE, "Must be an .exe file on Windows" >>
    ELSE << TRUE, "Valid executable" >>

\* Output streams of the tool, as sequences of characters.
Stdouts == { << >>, << "x", " " >>, << " ", "x" >> }
Stderrs == { << >>, << " " >> }

\* What subprocess.run does: the tool exits, the timeout elapses, or the
\* process cannot be created.
ProcOutcomes ==
    [kind : {"exit"}, returncode : {0, 1}, stdout : Stdouts, stderr : Stderrs]
    \cup
    [kind : {"timeout", "oserror"}, returncode : {0}, stdout : {<< >>},
     stderr : {<< >>}]

\* execute_command going on to subprocess.run whatever validate_path said.
validation_raises_never(is_valid) == FALSE

\* execute_command raises SRMError when validate_path fails.
validation_raises(is_valid) == ~is_valid

\* execute_command without its except clauses: what subprocess.run raised
\* leaves execute_command as it is.
subprocess_error_propagated(kind, secs) ==
    IF kind = "timeout"
    THEN [exc |-> "TimeoutExpired", message |-> "Command timed out after",
          arg |-> << ToString(secs) >>]
    ELSE [exc |-> "OSError", message |-> "OSError", arg |-> NoArg]

\* The except clauses of execute_command: subprocess.TimeoutExpired first,
\* then Exception; both raise SRMError.
subprocess_error(kind, secs) ==
    IF kind = "timeout"
    THEN [exc |-> "SRMError", message |-> "Steam ROM Manager timed out after",
          arg |-> << ToString(secs) >>]
    ELSE [exc |-> "SRMError", message |-> "Failed to execute Steam ROM Manager",
          arg |-> << "OSError" >>]

\* SRMRunner.execute_command: the value returned or the SRMError raised;
\* spawned tells whether subprocess.run was reached, kind what it did.
execute_command(p, win, proc) ==
    LET v == validate_path(p, win) IN
    IF validation_raises(v[1])
    THEN [exc |-> "SRMError", success |-> FALSE, output |-> << >>,
          message |-> "Steam ROM Manager validation failed",
          arg |-> << v[2] >>, valid |-> v[1], reason |-> v[2],
          spawned |-> FALSE, kind |-> "not run"]
    ELSE IF proc.kind # "exit"
    THEN LET e == subprocess_error(proc.kind, timeout_srm) IN
         [exc |-> e.exc, success |-> FALSE, output |-> << >>,
          message |-> e.message, arg |-> e.arg, valid |-> v[1],
          reason |-> v[2], spawned |-> TRUE, kind |-> proc.kind]
    ELSE [exc |-> "none", success |-> (proc.returncode = 0),
          output |-> Strip(proc.stdout \o proc.stderr),
          message |-> "", arg |-> NoArg, valid |-> v[1], reason |-> v[2],
          spawned |-> TRUE, kind |-> proc.kind]

\* Everything an execute_command call can give, on Windows and elsewhere.
ToolResultsWindows ==
    { execute_command(p, TRUE, proc) : p \in PathStates, proc \in ProcOutcomes }

ToolResultsOther ==
    { execute_command(p, FALSE, proc) : p \in PathStates, proc \in ProcOutcomes }

NoResult == "none"

\* tool_result of a run that has not called execute_command.
NoToolResult ==
    [exc |-> "not called", success |-> FALSE, output |-> << >>,
     message |-> "", arg |-> NoArg, valid |-> FALSE, reason |-> "",
     spawned |-> FALSE, kind |-> "not run"]

\* ------------------------------------------------------------------- Init

\* The log after _initialize_app: the lines of _run_preflight_checks.
PreflightLog(runner) ==
    << Line(INFO, "Running preflight checks...", NoArg) >>
    \o (IF runner = None
        THEN << Line(ERROR, "Steam ROM Manager path not configured", NoArg) >>
        ELSE << >>)
    \o << Line(INFO, "Preflight checks complete. Ready to start.", NoArg) >>

\* AppConfig.srm_path: the default, and the executables a user may configure.
AutoDetect == "auto-detect"
ConfiguredPath == "a.exe"
OtherPath == "b.exe"
SavedPaths == {AutoDetect, ConfiguredPath, OtherPath}

\* SteamROMManagerGUI.__init__: the window, its managers and no run.  The
\* runner exists when _resolve_srm_path gave a path: the configured one, or
\* the detected one, which is then also the configured one; with nothing
\* configured and nothing detected there is no runner.
GuiInit ==
    /\ status = READY
    /\ process_count = 0
    /\ srm_runner \in {None, "SRMRunner"}
    /\ gui_srm_path = (IF srm_runner = None THEN None ELSE ConfiguredPath)
    /\ config_srm_path = (IF srm_runner = None THEN AutoDetect ELSE ConfiguredPath)
    /\ dialog = "none"
    /\ is_windows \in BOOLEAN
    /\ log = log_message(EmptyBag, PreflightLog(srm_runner))
    /\ progress = << 0, 0 >>
    /\ start_button_state = NORMAL
    /\ was_running_before_shutdown = FALSE
    /\ steam_executable_path = None
    /\ ui_event = "none"
    /\ pc = [t \in Runs |-> "idle"]
    /\ calls = [t \in Runs |-> << >>]
    /\ shutdown_result = [t \in Runs |-> NoResult]
    /\ verify_result = [t \in Runs |-> NoResult]
    /\ tool_result = [t \in Runs |-> NoToolResult]
    /\ outcome = [t \in Runs |-> NoResult]
    /\ run_progress = [t \in Runs |-> << >>]

\* No wait_for_closure call is under way.
WaitIdle ==
    /\ max_wait = 0
    /\ wait_time = 0
    /\ total_waited = 0
    /\ wait_pc = "idle"
    /\ wait_result = NoResult
    /\ polls = 0

\* No SteamManager operation has been called directly.
NoOp ==
    [name |-> "none", first |-> {}, exc |-> "none", result |-> FALSE,
     signals |-> << >>, sleeps |-> 0, enumerations |-> 0, called |-> << >>,
     again |-> FALSE]

SteamIdle ==
    /\ procs = {}
    /\ op = NoOp
    /\ n_calls = 0

\* No file of the configuration is looked at: both paths are free and no
\* SRM_* variable is set.
Unset == << >>
Some(v) == << v >>
Absent(writable) ==
    [kind |-> "absent", readable |-> FALSE, writable |-> writable,
     json |-> None, theme |-> Unset, timeout_steam |-> Unset]
NoEnviron == [theme |-> Unset, timeout_steam |-> Unset]

SettingsIdle ==
    /\ config_file = Absent(TRUE)
    /\ legacy_file = Absent(TRUE)
    /\ environ = NoEnviron

Init ==
    /\ GuiInit
    /\ timeout = timeout_steam
    /\ WaitIdle
    /\ SteamIdle
    /\ SettingsIdle

\* ---------------------------------------------------------- start_process

\* start_process without its guard.
start_refused_never(st) == FALSE

\* start_process refuses a request while this holds.
start_refused(st) == st = RUNNING

\* The fields of AppConfig, and the fields of the config that
\* SettingsDialog._create_window reads while it builds the window, in order.
AppConfigFields ==
    {"srm_path", "theme", "auto_start", "log_level", "timeout_steam",
     "timeout_srm", "backup_shortcuts"}

DialogReads ==
    << "srm_path", "auto_start", "restart_steam_after_completion",
       "auto_close_on_success", "auto_close_delay" >>

\* A settings dialog whose window is always built to its end.
create_window_complete(fields) == [exc |-> "none", window |-> "complete"]

\* SettingsDialog.show() on a new dialog: _create_window builds the window
\* top down; reading a field the config does not have raises AttributeError
\* and leaves the window as far as it was built, with the path entry, Browse
\* and Auto-detect but without the Save and Cancel buttons.
create_window(fields) ==
    IF \A i \in DOMAIN DialogReads : DialogReads[i] \in fields
    THEN [exc |-> "none", window |-> "complete"]
    ELSE [exc |-> "AttributeError", window |-> "partial"]

\* _open_settings after show() returned or raised: the runner is rebuilt
\* from the saved path when that is a path other than the current one.
open_settings(shown, new_path, path, runner) ==
    IF shown.exc # "none"
    THEN [exc |-> shown.exc, srm_path |-> path, srm_runner |-> runner]
    ELSE IF new_path # AutoDetect /\ new_path # path
    THEN [exc |-> "none", srm_path |-> new_path, srm_runner |-> "SRMRunner"]
    ELSE [exc |-> "none", srm_path |-> path, srm_runner |-> runner]

\* Number of "path not configured" lines in the log.
NotConfiguredLines ==
    CopiesIn(Line(ERROR, "Cannot start: Steam ROM Manager path not configured",
                  NoArg), log)

\* start_process: the button, F5 and the auto-start timer all call it.
start_process ==
    IF start_refused(status)
    THEN /\ ui_event' = "refused"
         /\ UNCHANGED << gui_vars, steam_vars, config_vars, run_vars,
                         component_vars >>
    ELSE IF srm_runner = None
    THEN /\ NotConfiguredLines < MaxNotConfigured
         /\ log' = log_message(log, << Line(ERROR,
                "Cannot start: Steam ROM Manager path not configured", NoArg) >>)
         /\ LET shown == create_window(AppConfigFields)
                r == open_settings(shown, config_srm_path, gui_srm_path, srm_runner)
            IN /\ dialog' = shown.window
               /\ gui_srm_path' = r.srm_path
               /\ srm_runner' = r.srm_runner
         /\ ui_event' = "not_configured"
         /\ UNCHANGED << status, process_count, progress, start_button_state,
                         steam_vars, is_windows, config_srm_path, run_vars,
                         component_vars >>
    ELSE /\ process_count < MaxRuns
         /\ log' = log_message(IF process_count > 0 THEN clear_log(log) ELSE log,
                << Line(INFO, "Starting Steam ROM Manager automation...", NoArg) >>)
         /\ process_count' = process_count + 1
         /\ pc' = [pc EXCEPT ![process_count + 1] = "started"]
         /\ ui_event' = "started"
         /\ UNCHANGED << status, progress, start_button_state, steam_vars,
                         config_vars, calls, shutdown_result, verify_result,
                         tool_result, outcome, run_progress, component_vars >>

\* ----------------------------------------------------- automation_process

\* The except clauses of automation_process: (SteamError, SRMError) first,
\* then Exception.  The log line, the progress update and the status set.
except_line(exc, message, arg) ==
    IF exc \in {"SteamError", "SRMError"}
    THEN Line(ERROR, "Operation failed", << message >> \o arg)
    ELSE Line(ERROR, "Unexpected error", << message >> \o arg)

except_progress(exc) == << 0, 0 >>

\* automation_process without its "except Exception" clause: only the tool
\* errors are mapped, any other exception leaves the status as it was.
except_status_tool_errors_only(exc) ==
    IF exc \in {"SteamError", "SRMError"} THEN FAILED ELSE RUNNING

except_status(exc) == FAILED

\* Step 2 going on to step 3 whatever is_running() said.
verification_fatal_never(running) == FALSE

\* Step 2: a true is_running() ends the run.
verification_fatal(running) == running

\* Step 4 setting SUCCESS without looking at the result.
result_status_always_success(success) == SUCCESS

\* Step 4: the status and the progress update after execute_command returned.
result_status(success) == IF success THEN SUCCESS ELSE FAILED

result_progress(success) == IF success THEN << 4, 100 >> ELSE << 4, 0 >>

\* Step 4 logging the captured output of a failed tool at info level.
result_lines_output_as_info(success, output) ==
    IF success
    THEN << Line(LVL_SUCCESS, "Steam ROM Manager completed successfully!", NoArg),
            Line(LVL_SUCCESS, "ROMs have been added to Steam", NoArg),
            Line(INFO, "Total time", NoArg) >>
         \o (IF output # << >> THEN << Line(INFO, "Output", output) >>
             ELSE << >>)
    ELSE << Line(ERROR, "Steam ROM Manager failed!", NoArg) >>
         \o (IF output # << >> THEN << Line(INFO, "Output", output) >>
             ELSE << >>)

\* Step 4 never logging what the tool printed.
result_lines_without_output(success, output) ==
    IF success
    THEN << Line(LVL_SUCCESS, "Steam ROM Manager completed successfully!", NoArg),
            Line(LVL_SUCCESS, "ROMs have been added to Steam", NoArg),
            Line(INFO, "Total time", NoArg) >>
    ELSE << Line(ERROR, "Steam ROM Manager failed!", NoArg) >>

\* Step 4: the lines logged after execute_command returned.
result_lines(success, output) ==
    IF success
    THEN << Line(LVL_SUCCESS, "Steam ROM Manager completed successfully!", NoArg),
            Line(LVL_SUCCESS, "ROMs have been added to Steam", NoArg),
            Line(INFO, "Total time", NoArg) >>
         \o (IF output # << >> THEN << Line(INFO, "Output", output) >>
             ELSE << >>)
    ELSE << Line(ERROR, "Steam ROM Manager failed!", NoArg) >>
         \o (IF output # << >> THEN << Line(ERROR, "Error", output) >>
             ELSE << >>)

\* The thread started by start_process enters automation_process: status
\* RUNNING, start button disabled, progress (1, 25), the step-1 line.
Begin(t) ==
    /\ pc[t] = "started"
    /\ status' = RUNNING
    /\ start_button_state' = DISABLED
    /\ progress' = << 1, 25 >>
    /\ run_progress' = [run_progress EXCEPT ![t] = << 1, 25 >>]
    /\ log' = log_message(log,
            << Line(INFO, "Step 1: Checking Steam processes...", NoArg) >>)
    /\ pc' = [pc EXCEPT ![t] = "step1"]
    /\ UNCHANGED << process_count, steam_vars, config_vars, ui_event, calls,
                    shutdown_result, verify_result, tool_result, outcome,
                    component_vars >>

\* Step 1: graceful_shutdown, its result logged, then the step-2 progress
\* update; an exception goes to the except clause.
Shutdown(t) ==
    /\ pc[t] = "step1"
    /\ \E r \in ShutdownResults(steam_executable_path) :
         /\ was_running_before_shutdown' = r.was_running
         /\ steam_executable_path' = r.path
         /\ calls' = [calls EXCEPT ![t] = @ \o << "graceful_shutdown" >>]
         /\ IF r.exc # "none"
            THEN /\ shutdown_result' = [shutdown_result EXCEPT ![t] = r.exc]
                 /\ log' = log_message(log, << except_line(r.exc, r.message, r.arg) >>)
                 /\ progress' = except_progress(r.exc)
                 /\ run_progress' = [run_progress EXCEPT ![t] = except_progress(r.exc)]
                 /\ status' = except_status(r.exc)
                 /\ outcome' = [outcome EXCEPT ![t] = except_status(r.exc)]
                 /\ pc' = [pc EXCEPT ![t] = "finally"]
            ELSE /\ shutdown_result' = [shutdown_result EXCEPT ![t] =
                        IF r.success THEN "success" ELSE "failure"]
                 /\ log' = log_message(log,
                         << Line(IF r.success THEN LVL_SUCCESS ELSE WARNING,
                                 r.message, r.arg),
                            Line(INFO, "Step 2: Final verification...", NoArg) >>)
                 /\ progress' = << 2, 50 >>
                 /\ run_progress' = [run_progress EXCEPT ![t] = << 2, 50 >>]
                 /\ pc' = [pc EXCEPT ![t] = "step2"]
                 /\ UNCHANGED << status, outcome >>
    /\ UNCHANGED << process_count, start_button_state, config_vars, ui_event,
                    verify_result, tool_result, component_vars >>

\* Step 2: is_running() again; then the step-3 progress update.
Verify(t) ==
    /\ pc[t] = "step2"
    /\ \E running \in BOOLEAN :
         /\ calls' = [calls EXCEPT ![t] = @ \o << "is_running" >>]
         /\ verify_result' = [verify_result EXCEPT ![t] =
                IF running THEN "running" ELSE "closed"]
         /\ IF verification_fatal(running)
            THEN /\ log' = log_message(log, << Line(ERROR,
                        "Steam is still running! Manual intervention required.",
                        NoArg) >>)
                 /\ progress' = << 0, 0 >>
                 /\ run_progress' = [run_progress EXCEPT ![t] = << 0, 0 >>]
                 /\ status' = FAILED
                 /\ outcome' = [outcome EXCEPT ![t] = FAILED]
                 /\ pc' = [pc EXCEPT ![t] = "finally"]
            ELSE /\ log' = log_message(log,
                         << Line(LVL_SUCCESS, "Steam is completely closed", NoArg),
                            Line(INFO, "Step 3: Executing Steam ROM Manager...",
                                 NoArg) >>)
                 /\ progress' = << 3, 75 >>
                 /\ run_progress' = [run_progress EXCEPT ![t] = << 3, 75 >>]
                 /\ pc' = [pc EXCEPT ![t] = "step3"]
                 /\ UNCHANGED << status, outcome >>
    /\ UNCHANGED << process_count, start_button_state, steam_vars, config_vars,
                    ui_event, shutdown_result, tool_result, component_vars >>

\* Steps 3 and 4: execute_command("add") on the current srm_runner, then the
\* result branch or the except clause.
Execute(t) ==
    /\ pc[t] = "step3"
    /\ \E r \in (IF is_windows THEN ToolResultsWindows ELSE ToolResultsOther) :
         /\ calls' = [calls EXCEPT ![t] = @ \o << "execute_command" >>]
         /\ tool_result' = [tool_result EXCEPT ![t] = r]
         /\ IF r.exc # "none"
            THEN /\ log' = log_message(log, << except_line(r.exc, r.message, r.arg) >>)
                 /\ progress' = except_progress(r.exc)
                 /\ run_progress' = [run_progress EXCEPT ![t] = except_progress(r.exc)]
                 /\ status' = except_status(r.exc)
                 /\ outcome' = [outcome EXCEPT ![t] = except_status(r.exc)]
            ELSE /\ log' = log_message(log, result_lines(r.success, r.output))
                 /\ progress' = result_progress(r.success)
                 /\ run_progress' = [run_progress EXCEPT ![t] = result_progress(r.success)]
                 /\ status' = result_status(r.success)
                 /\ outcome' = [outcome EXCEPT ![t] = result_status(r.success)]
    /\ pc' = [pc EXCEPT ![t] = "finally"]
    /\ UNCHANGED << process_count, start_button_state, steam_vars, config_vars,
                    ui_event, shutdown_result, verify_result, component_vars >>

\* The finally clause: the start button is enabled again.  The thread ends
\* here, and with it what the run called and got.
Finally(t) ==
    /\ pc[t] = "finally"
    /\ start_button_state' = NORMAL
    /\ pc' = [pc EXCEPT ![t] = "done"]
    /\ calls' = [calls EXCEPT ![t] = << >>]
    /\ shutdown_result' = [shutdown_result EXCEPT ![t] = NoResult]
    /\ verify_result' = [verify_result EXCEPT ![t] = NoResult]
    /\ tool_result' = [tool_result EXCEPT ![t] = NoToolResult]
    /\ outcome' = [outcome EXCEPT ![t] = NoResult]
    /\ run_progress' = [run_progress EXCEPT ![t] = << >>]
    /\ UNCHANGED << status, process_count, log, progress, steam_vars,
                    config_vars, ui_event, component_vars >>

\* One step of the thread of run t.
RunStep(t) == Begin(t) \/ Shutdown(t) \/ Verify(t) \/ Execute(t) \/ Finally(t)

Next == start_process \/ \E t \in Runs : RunStep(t)

Spec == Init /\ [][Next]_vars

\* The threads are scheduled: a run's thread that can take a step takes it.
LiveSpec == Spec /\ \A t \in Runs : WF_vars(RunStep(t))

\* ---------------------------------------------------- the process table

Pids == 1..MaxProcs

\* Constants.STEAM_PROCESSES, by character.
SteamExe == << "s", "t", "e", "a", "m", ".", "e", "x", "e" >>
SteamServiceExe ==
    << "s", "t", "e", "a", "m", "s", "e", "r", "v", "i", "c", "e", ".", "e", "x", "e" >>
SteamWebHelperExe ==
    << "s", "t", "e", "a", "m", "w", "e", "b", "h", "e", "l", "p", "e", "r", ".",
       "e", "x", "e" >>
STEAM_PROCESSES == << SteamExe, SteamServiceExe, SteamWebHelperExe >>

\* Names of processes that are not Steam's.
OtherNames == { << "s", "t", "e", "a", "m" >>, << "x", ".", "e", "x", "e" >> }

\* What psutil.process_iter(['pid', 'name']) yields for one process and what
\* reading it does: info['name'] is a text, or None when the name could not
\* be retrieved ("unnamed"), or the read raises one of the psutil exceptions.
EntryStates ==
    { "ok", "unnamed", "NoSuchProcess", "AccessDenied", "ZombieProcess" }

Entry(state, name) == [state |-> state, name |-> name]

\* The process with pid 0 stands for the processes of the system.
SystemPid == 0

\* SteamManager._get_steam_processes over the process table: an entry whose
\* read raises a psutil exception is skipped, an entry without a name raises
\* AttributeError out of the loop, and the others are kept when the lower-case
\* name is one of the lower-case STEAM_PROCESSES.
get_steam_processes(table) ==
    IF \E p \in DOMAIN table : table[p].state = "unnamed"
    THEN [exc |-> "AttributeError", found |-> {}]
    ELSE [exc |-> "none",
          found |-> { p \in DOMAIN table :
                        /\ table[p].state = "ok"
                        /\ Lower(table[p].name)
                             \in { Lower(n) : n \in Range(STEAM_PROCESSES) } }]

\* is_running without its handler: the exception of the enumeration.
is_running_unhandled(scan) ==
    [exc |-> scan.exc, result |-> scan.exc = "none" /\ scan.found # {}]

\* SteamManager.is_running: len(...) > 0, and False on any exception.
is_running(scan) ==
    [exc |-> "none", result |-> scan.exc = "none" /\ scan.found # {}]

\* The process table when the Steam processes are ps and the system process
\* can be named or not.
Table(ps, sys) ==
    [p \in ps \cup {SystemPid} |->
        IF p = SystemPid THEN Entry(sys, << "x", ".", "e", "x", "e" >>)
        ELSE Entry("ok", SteamExe)]

SysStates == { "ok", "unnamed" }

\* ------------------------------------------------------- wait_for_closure

\* AppConfig.timeout_steam is an integer with ge=5 and le=300.
MinTimeout == 5
MaxTimeout == 300

\* Times are counted in ticks of 1/64 s: 0.5 s and its products with 1.5 up
\* to the 3 s cap are whole numbers of ticks, as they are exact in binary
\* floating point.
TicksPerSecond == 64

Min(a, b) == IF a <= b THEN a ELSE b

\* wait_for_closure with a backoff that doubles.
next_wait_time_doubling(w) == Min(w * 2, 3 * TicksPerSecond)

\* wait_for_closure with a backoff that is never capped.
next_wait_time_uncapped(w) == (w * 3) \div 2

\* wait_time = min(wait_time * 1.5, 3)
next_wait_time(w) == Min((w * 3) \div 2, 3 * TicksPerSecond)

\* A window that is up with one run-independent SteamManager(timeout), and
\* the target running or not.
WaitInit ==
    /\ GuiInit
    /\ srm_runner = "SRMRunner"
    /\ ~is_windows
    /\ timeout \in MinTimeout..MaxTimeout
    /\ WaitIdle
    /\ procs \in { {}, {1} }
    /\ op = NoOp
    /\ n_calls = 0
    /\ SettingsIdle

\* wait_for_closure() is entered: max_wait = max_wait or self.timeout,
\* wait_time = 0.5, total_waited = 0.
WaitCall ==
    /\ wait_pc = "idle"
    /\ max_wait' = timeout * TicksPerSecond
    /\ wait_time' = TicksPerSecond \div 2
    /\ total_waited' = 0
    /\ wait_pc' = "loop"
    /\ UNCHANGED << wait_result, polls, timeout, settings_vars, gui_vars, steam_vars,
                    config_vars, run_vars, ui_event, steam_env_vars >>

\* One test of the while condition and, when it holds, one pass of the body:
\* is_running() is polled; a stopped target returns True, else the call
\* sleeps wait_time, adds it to total_waited and backs off.  The target may
\* stop while the call sleeps.
WaitLoop ==
    /\ wait_pc = "loop"
    /\ \E sys \in SysStates :
         LET running == is_running(get_steam_processes(Table(procs, sys))).result
         IN IF ~(total_waited < max_wait)
            THEN /\ wait_result' = FALSE
                 /\ wait_pc' = "returned"
                 /\ UNCHANGED << wait_time, total_waited, polls, procs >>
            ELSE /\ polls' = polls + 1
                 /\ IF ~running
                    THEN /\ wait_result' = TRUE
                         /\ wait_pc' = "returned"
                         /\ UNCHANGED << wait_time, total_waited, procs >>
                    ELSE /\ total_waited' = total_waited + wait_time
                         /\ wait_time' = next_wait_time(wait_time)
                         /\ procs' \in { procs, {} }
                         /\ UNCHANGED << wait_result, wait_pc >>
    /\ UNCHANGED << max_wait, timeout, settings_vars, gui_vars, steam_vars, config_vars,
                    run_vars, ui_event, op, n_calls >>

WaitNext == WaitCall \/ WaitLoop

WaitSpec == WaitInit /\ [][WaitNext]_vars

\* ------------------------------------------------- SteamManager.__init__

\* The timeouts a caller may hand to the constructor.
TimeoutArgs == -2..8

\* SteamManager(timeout): the argument is stored as it comes.
SteamManager(secs) == [exc |-> "none", timeout |-> secs]

\* No SteamManager has been built; the target is running or not.
ManagerInit ==
    /\ GuiInit
    /\ srm_runner = "SRMRunner"
    /\ ~is_windows
    /\ timeout = timeout_steam
    /\ WaitIdle
    /\ procs \in { {}, {1} }
    /\ op = NoOp
    /\ n_calls = 0
    /\ SettingsIdle

\* A caller builds the SteamManager.
Construct ==
    /\ op.name = "none"
    /\ \E secs \in TimeoutArgs :
         LET r == SteamManager(secs)
         IN /\ op' = [name |-> "SteamManager", arg |-> secs, exc |-> r.exc]
            /\ timeout' = IF r.exc = "none" THEN r.timeout ELSE timeout
    /\ UNCHANGED << wait_vars, procs, n_calls, settings_vars, gui_vars,
                    steam_vars, config_vars, run_vars, ui_event >>

\* wait_for_closure() on the SteamManager that was built.
ManagerWaitCall == op.name = "SteamManager" /\ op.exc = "none" /\ WaitCall

ManagerNext == Construct \/ ManagerWaitCall \/ WaitLoop

ManagerSpec == ManagerInit /\ [][ManagerNext]_vars

\* ------------------------------------- SteamManager operations, one by one

\* A SteamManager on a system that holds any set of Steam processes.
SteamInit ==
    /\ GuiInit
    /\ srm_runner = "SRMRunner"
    /\ ~is_windows
    /\ timeout = timeout_steam
    /\ WaitIdle
    /\ procs \in SUBSET Pids
    /\ op = NoOp
    /\ n_calls = 0
    /\ SettingsIdle

\* The processes a pass of signals may have ended: those whose call raised
\* NoSuchProcess are gone, those whose call succeeded may be.
MayBeGone(gone, enumerated, outcomes) ==
    /\ \A p \in enumerated : outcomes[p] = "NoSuchProcess" => p \in gone
    /\ \A p \in gone : outcomes[p] \in {"ok", "NoSuchProcess"}

\* A Steam process starts or exits on its own.
EnvChange ==
    /\ \E p \in Pids :
         procs' = IF p \in procs THEN procs \ {p} ELSE procs \cup {p}
    /\ UNCHANGED << op, n_calls, timeout, settings_vars, wait_vars, gui_vars, steam_vars,
                    config_vars, run_vars, ui_event >>

\* No enumeration result: the call does not get as far as enumerating.
NoScan == [exc |-> "none", found |-> {}]

\* The effect of a kill_processes call that gave r: found and second are
\* what its enumerations gave, after the Steam processes it leaves.
KillEffect(r, found, second, after) ==
    /\ op' = [name |-> "kill_processes", first |-> procs,
              exc |-> r.exc, result |-> r.result,
              signals |-> r.signals, sleeps |-> r.sleeps,
              enumerations |-> r.enumerations,
              called |-> << >>,
              again |-> (op.name = "kill_processes" /\ op.first = procs),
              steps |-> r.steps, found |-> found, second |-> second,
              after |-> after]
    /\ procs' = after

\* The effect of a graceful_shutdown call that gave r; k is what its
\* kill_processes call did and after the processes that call left.
ShutdownEffect(r, k, after, running) ==
    LET killing == "kill_processes" \in Range(r.called) IN
    /\ was_running_before_shutdown' = r.was_running
    /\ steam_executable_path' = r.path
    /\ op' = [name |-> "graceful_shutdown", first |-> procs,
              exc |-> r.exc, result |-> r.success,
              signals |-> IF killing THEN k.signals ELSE << >>,
              sleeps |-> IF killing THEN k.sleeps ELSE 0,
              enumerations |-> 1 + (IF killing THEN k.enumerations ELSE 0),
              called |-> r.called, running |-> running,
              again |-> (op.name = "graceful_shutdown" /\ op.first = procs)]
    /\ procs' = IF killing /\ k.sleeps > 0 THEN after ELSE procs

\* What a graceful_shutdown call meets when its kill_processes call gives k.
ShutdownEnv(caller, k) ==
    [running |-> caller.running, probe |-> caller.probe, kill_exc |-> k.exc,
     killed |-> k.result, closed |-> caller.closed]

\* The effect of a kill_processes call made directly or by graceful_shutdown.
KillEffectIn(caller, r, found, second, after) ==
    IF caller.name = "kill_processes"
    THEN KillEffect(r, found, second, after)
    ELSE ShutdownEffect(
             graceful_shutdown(ShutdownEnv(caller, r), steam_executable_path),
             r, after, caller.running)

\* The kill_processes calls that can happen on the Steam processes ps.  The
\* system process is named or not at each enumeration; each terminate() and
\* kill() does one of SignalOutcomes; during the settle delay processes
\* signalled may go and new ones may start.
KillCalls(ps, caller) ==
    \E sys1 \in SysStates :
      LET first == get_steam_processes(Table(ps, sys1)) IN
      IF first.exc # "none" \/ first.found = {}
      THEN KillEffectIn(caller, kill_processes(first, << >>, NoScan, << >>),
                        first.found, {}, ps)
      ELSE \E term \in [ps -> SignalOutcomes] :
           \E gone \in SUBSET ps, born \in SUBSET (Pids \ ps), sys2 \in SysStates :
             /\ MayBeGone(gone, ps, term)
             /\ LET left == (ps \ gone) \cup born
                    second == get_steam_processes(Table(left, sys2))
                IN IF second.exc # "none"
                   THEN KillEffectIn(caller,
                                     kill_processes(first, term, second, << >>),
                                     first.found, {}, left)
                   ELSE \E kills \in [left -> SignalOutcomes] :
                        \E gone2 \in SUBSET left :
                          /\ MayBeGone(gone2, left, kills)
                          /\ KillEffectIn(caller,
                                          kill_processes(first, term, second, kills),
                                          first.found, second.found, left \ gone2)

\* kill_processes() is called.
CallKillProcesses ==
    /\ n_calls < MaxCalls
    /\ KillCalls(procs, [name |-> "kill_processes"])
    /\ n_calls' = n_calls + 1
    /\ UNCHANGED << timeout, settings_vars, wait_vars, gui_vars, steam_vars, config_vars,
                    run_vars, ui_event >>

\* graceful_shutdown() is called: is_running() is true when the enumeration
\* finds a process.  Whether the call gets as far as kill_processes does not
\* depend on what kill_processes would do.
CallGracefulShutdown ==
    /\ n_calls < MaxCalls
    /\ \E probe \in {None, "steam.exe"}, closed \in BOOLEAN, sys \in SysStates :
         LET running == is_running(get_steam_processes(Table(procs, sys))).result
             caller == [name |-> "graceful_shutdown", running |-> running,
                        probe |-> probe, closed |-> closed]
             reach == graceful_shutdown(
                          ShutdownEnv(caller, [exc |-> "none", result |-> TRUE]),
                          steam_executable_path)
         IN
         IF "kill_processes" \notin Range(reach.called)
         THEN ShutdownEffect(reach, kill_processes(NoScan, << >>, NoScan, << >>),
                             procs, running)
         ELSE KillCalls(procs, caller)
    /\ n_calls' = n_calls + 1
    /\ UNCHANGED << timeout, settings_vars, wait_vars, status, process_count, log, progress,
                    start_button_state, config_vars, run_vars, ui_event >>

\* find_steam_executable() is called.
CallFindSteamExecutable ==
    /\ n_calls < MaxCalls
    /\ \E probe \in {None, "steam.exe"} :
         LET f == find_steam_executable(probe) IN
         op' = [name |-> "find_steam_executable", first |-> procs,
                exc |-> f.exc, result |-> f.path # None, signals |-> << >>,
                sleeps |-> 0, enumerations |-> 0, called |-> << >>,
                again |-> (op.name = "find_steam_executable"
                             /\ op.first = procs)]
    /\ n_calls' = n_calls + 1
    /\ UNCHANGED << procs, timeout, settings_vars, wait_vars, gui_vars, steam_vars,
                    config_vars, run_vars, ui_event >>

\* The effect of a start_steam(steam_path) call that gave r in the
\* environment e.
StartEffect(r, e, after) ==
    /\ op' = [name |-> "start_steam", first |-> procs, exc |-> r.exc,
              result |-> r.success, message |-> r.message, arg |-> r.arg,
              given |-> e.steam_path, stored |-> steam_executable_path,
              probe |-> e.probe, exists |-> e.exists, popen |-> e.popen,
              resolved |-> r.resolved, discovered |-> r.discovered,
              launched |-> r.launched, slept |-> r.slept,
              running |-> (after # {} /\ e.sys = "ok"),
              signals |-> << >>, sleeps |-> 0, enumerations |-> 0,
              called |-> << >>, again |-> FALSE]
    /\ procs' = after

\* start_steam(steam_path) is called: a launched Steam starts any number of
\* processes, or exits at once.
CallStartSteam ==
    /\ n_calls < MaxCalls
    /\ \E e \in [steam_path : {None, "", "arg.exe"}, probe : {None, "steam.exe"},
                  exists : BOOLEAN, popen : {"ok", "OSError"}, sys : SysStates] :
         LET call(running) == start_steam(e.steam_path, steam_executable_path,
                                          e.probe, e.exists, e.popen, running)
         IN IF ~call(TRUE).launched
            THEN e.sys = "ok" /\ StartEffect(call(TRUE), e, procs)
            ELSE \E started \in SUBSET Pids :
                   LET after == procs \cup started
                       scan == get_steam_processes(Table(after, e.sys))
                   IN StartEffect(call(is_running(scan).result), e, after)
    /\ n_calls' = n_calls + 1
    /\ UNCHANGED << timeout, settings_vars, wait_vars, gui_vars, steam_vars, config_vars,
                    run_vars, ui_event >>

SteamNext ==
    \/ EnvChange
    \/ CallKillProcesses
    \/ CallGracefulShutdown
    \/ CallFindSteamExecutable
    \/ CallStartSteam

SteamSpec == SteamInit /\ [][SteamNext]_vars

\* ------------------------------------------- the enumeration, called directly

\* The names a Steam process shows, in the case the system reports.
SteamNames == { SteamExe, << "S", "t", "e", "a", "m", ".", "E", "X", "E" >>,
                SteamWebHelperExe }

\* What the scan can meet for a process whose name is one of names: the name
\* is read, or it is not available, or the read raises.
Entries(names) ==
    { Entry("ok", n) : n \in names } \cup
    { Entry(st, << >>) : st \in EntryStates \ { "ok" } }

\* The process tables with the Steam processes ps and a process of the system.
Tables(ps) ==
    { t \in [ps \cup {SystemPid} -> Entries(SteamNames) \cup Entries(OtherNames)] :
        \A p \in DOMAIN t :
          t[p] \in (IF p = SystemPid THEN Entries(OtherNames)
                    ELSE Entries(SteamNames)) }

\* _get_steam_processes() is called.
CallGetSteamProcesses ==
    /\ n_calls < MaxCalls
    /\ \E t \in Tables(procs) :
         LET scan == get_steam_processes(t) IN
         op' = [name |-> "_get_steam_processes", first |-> procs, table |-> t,
                exc |-> scan.exc, found |-> scan.found, result |-> FALSE,
                again |-> op.name = "_get_steam_processes"]
    /\ n_calls' = n_calls + 1
    /\ UNCHANGED << procs, timeout, settings_vars, wait_vars, gui_vars, steam_vars,
                    config_vars, run_vars, ui_event >>

\* is_running() is called.
CallIsRunning ==
    /\ n_calls < MaxCalls
    /\ \E t \in Tables(procs) :
         LET scan == get_steam_processes(t)
             r == is_running(scan)
         IN op' = [name |-> "is_running", first |-> procs, table |-> t,
                   exc |-> r.exc, found |-> scan.found, result |-> r.result,
                   scan_exc |-> scan.exc, again |-> op.name = "is_running"]
    /\ n_calls' = n_calls + 1
    /\ UNCHANGED << procs, timeout, settings_vars, wait_vars, gui_vars, steam_vars,
                    config_vars, run_vars, ui_event >>

ScanNext == EnvChange \/ CallGetSteamProcesses \/ CallIsRunning

ScanSpec == SteamInit /\ [][ScanNext]_vars

\* ---------------------------------------- SRMRunner operations, one by one

\* str.endswith
endswith(text, suffix) ==
    /\ Len(text) >= Len(suffix)
    /\ SubSeq(text, Len(text) - Len(suffix) + 1, Len(text)) = suffix

DotExe == << ".", "e", "x", "e" >>

\* pathlib.Path(text): the empty text is the current directory.
Path(text) == IF text = << >> THEN << "." >> ELSE text

\* Path.parent of a relative path: the text before the last separator, or
\* the current directory when there is none.
parent(path) ==
    LET seps == { i \in DOMAIN path : path[i] = "/" } IN
    IF seps = {} THEN << "." >>
    ELSE LET last == CHOOSE i \in seps : \A j \in seps : j <= i
         IN SubSeq(path, 1, last - 1)

\* The command words execute_command is called with.
Commands == { "add", "list" }

\* The arguments of subprocess.run: cmd = [str(self.srm_path), command] and
\* cwd = self.srm_path.parent.
run_args(srm_path, command) ==
    [cmd |-> << Path(srm_path), command >>, cwd |-> parent(Path(srm_path))]

\* The texts SRMRunner is constructed with.
SrmPaths ==
    { << >> } \cup
    { stem \o suffix :
        stem \in { << "s" >>, << "S", "x" >>, << "d", "/", "s" >> },
        suffix \in { << >>, << ".", "e", "x", "e" >>, << ".", "E", "X", "E" >>,
                     << ".", "e", "X", "e" >>, << ".", "e", "x" >>,
                     << "e", "x", "e" >>, << ".", "e", "x", "e", ".", "x" >> } }

\* What is at the path: nothing, a regular file, a directory, or something
\* whose stat call raises OSError.  The current directory is a directory.
FileKinds == { "missing", "file", "dir", "unreadable" }

KindsAt(srm_path) == IF srm_path = << >> THEN { "dir" } ELSE FileKinds

\* SRMRunner(srm_path) on a file system with kind at that path.
path_state(srm_path, kind) ==
    [exists |-> kind \in {"file", "dir"}, is_file |-> kind = "file",
     exe_suffix |-> endswith(Lower(Path(srm_path)), DotExe),
     error |-> kind = "unreadable"]

\* The path of the SRMRunner that is called: any text at construction, and
\* the same text in the calls that follow.
RunnerPaths == IF op.name = "none" THEN SrmPaths ELSE { op.srm_path }

\* A window on either platform; no operation has been called.
RunnerInit ==
    /\ GuiInit
    /\ srm_runner = "SRMRunner"
    /\ timeout = timeout_steam
    /\ WaitIdle
    /\ SteamIdle
    /\ SettingsIdle

\* SRMRunner(srm_path).validate_path() is called.
CallValidatePath ==
    /\ \E srm_path \in RunnerPaths : \E kind \in KindsAt(srm_path) :
         LET v == validate_path(path_state(srm_path, kind), is_windows) IN
         op' = [name |-> "validate_path", srm_path |-> srm_path, at |-> kind,
                valid |-> v[1], reason |-> v[2], exc |-> "none",
                success |-> FALSE, output |-> << >>, message |-> "",
                arg |-> NoArg, spawned |-> FALSE, kind |-> "not run"]
    /\ UNCHANGED << procs, n_calls, timeout, settings_vars, wait_vars, gui_vars, steam_vars,
                    config_vars, run_vars, ui_event >>

\* SRMRunner(srm_path).execute_command(command) is called.
CallExecuteCommand ==
    /\ \E srm_path \in RunnerPaths : \E kind \in KindsAt(srm_path) :
       \E proc \in ProcOutcomes : \E command \in Commands :
         LET r == execute_command(path_state(srm_path, kind), is_windows, proc)
             a == run_args(srm_path, command)
         IN
         op' = [name |-> "execute_command", srm_path |-> srm_path, at |-> kind,
                valid |-> r.valid, reason |-> r.reason, exc |-> r.exc,
                success |-> r.success, output |-> r.output,
                message |-> r.message, arg |-> r.arg, spawned |-> r.spawned,
                kind |-> r.kind, command |-> command,
                cmd |-> IF r.spawned THEN a.cmd ELSE << >>,
                cwd |-> IF r.spawned THEN a.cwd ELSE << >>,
                returncode |-> IF r.spawned THEN proc.returncode ELSE 0,
                stdout |-> IF r.spawned THEN proc.stdout ELSE << >>,
                stderr |-> IF r.spawned THEN proc.stderr ELSE << >>]
    /\ UNCHANGED << procs, n_calls, timeout, settings_vars, wait_vars, gui_vars, steam_vars,
                    config_vars, run_vars, ui_event >>

RunnerNext == CallValidatePath \/ CallExecuteCommand

RunnerSpec == RunnerInit /\ [][RunnerNext]_vars

\* ------------------------------------------- AppConfig and ConfigManager

\* Theme texts, by character.
Auto == << "a", "u", "t", "o" >>
Light == << "l", "i", "g", "h", "t" >>
Dark == << "d", "a", "r", "k" >>
valid_themes == { Auto, Light, Dark }

\* AppConfig.validate_theme: the value is accepted when its lower-case form
\* is a valid theme.
validate_theme(v) == Lower(v) \in valid_themes

\* Field(ge=5, le=300) of AppConfig.timeout_steam.
validate_timeout_steam(v) == v >= MinTimeout /\ v <= MaxTimeout

\* The field defaults of AppConfig.
Defaults == [theme |-> Auto, timeout_steam |-> timeout_steam]

NoConfig == [theme |-> << >>, timeout_steam |-> 0]
NoKwargs == [theme |-> Unset, timeout_steam |-> Unset]

\* The value a settings source chain gives a field: the keyword argument,
\* else the SRM_* environment variable, else the field default.
field_value(given, env_value, default) ==
    IF given # Unset THEN given[1]
    ELSE IF env_value # Unset THEN env_value[1]
    ELSE default

\* AppConfig(**kwargs) with the environment env: every field is taken from
\* the sources and validated; the theme is stored in lower case.
AppConfig(kwargs, env) ==
    LET theme == field_value(kwargs.theme, env.theme, Defaults.theme)
        secs == field_value(kwargs.timeout_steam, env.timeout_steam,
                            Defaults.timeout_steam)
    IN IF validate_theme(theme) /\ validate_timeout_steam(secs)
       THEN [exc |-> "none",
             config |-> [theme |-> Lower(theme), timeout_steam |-> secs]]
       ELSE [exc |-> "ValidationError", config |-> NoConfig]

\* json.dump(config.model_dump(), f): the text of a saved configuration.
model_dump(config, writable) ==
    [kind |-> "file", readable |-> TRUE, writable |-> writable,
     json |-> "object", theme |-> Some(config.theme),
     timeout_steam |-> Some(config.timeout_steam)]

\* ConfigManager.save_config_internal(config) on the file state file.
save_config_internal(config, file) ==
    IF file.writable
    THEN [result |-> TRUE, file |-> model_dump(config, file.writable)]
    ELSE [result |-> FALSE, file |-> file]

\* json.load(f) of an existing file: the exception of open or of the parser,
\* or the keyword arguments of a JSON object.
json_load(file) ==
    IF ~file.readable THEN "PermissionError"
    ELSE IF file.json = "corrupt" THEN "JSONDecodeError"
    ELSE IF file.json = "list" THEN "TypeError"
    ELSE "none"

json_data(file) == [theme |-> file.theme, timeout_steam |-> file.timeout_steam]

\* The return AppConfig() of the handlers of load_config: what it raises
\* leaves load_config.
return_default(file, env) ==
    LET d == AppConfig(NoKwargs, env)
    IN [exc |-> d.exc, config |-> d.config, file |-> file, wrote |-> FALSE]

\* ConfigManager.load_config(): the exception that leaves it, the settings
\* it returns, the config file afterwards and whether it opened the file for
\* writing.
load_config(file, env) ==
    IF file.kind = "file"
    THEN IF json_load(file) # "none"
         THEN return_default(file, env)
         ELSE LET c == AppConfig(json_data(file), env)
              IN IF c.exc = "none"
                 THEN [exc |-> "none", config |-> c.config, file |-> file,
                       wrote |-> FALSE]
                 ELSE return_default(file, env)
    ELSE LET c == AppConfig(NoKwargs, env)
         IN IF c.exc = "none"
            THEN LET saved == save_config_internal(c.config, file)
                 IN [exc |-> "none", config |-> c.config, file |-> saved.file,
                     wrote |-> saved.result]
            ELSE return_default(file, env)

\* --------------------------------------------------------- AppDirectories

\* migrate_legacy_config without its check of the new location.
may_copy_always(new_file) == TRUE

\* migrate_legacy_config copies only when nothing exists at the new location.
may_copy(new_file) == new_file.kind = "absent"

\* AppDirectories.migrate_legacy_config(legacy_config_path): its result and
\* the file at the new location afterwards. The directory of a missing new
\* file that is not writable cannot be created, and shutil.copy2 of an
\* unreadable legacy file raises before it creates the target.
migrate_legacy_config(legacy, new_file) ==
    IF legacy.kind = "absent" THEN [result |-> TRUE, new_file |-> new_file]
    ELSE IF new_file.kind = "absent" /\ ~new_file.writable
    THEN [result |-> FALSE, new_file |-> new_file]
    ELSE IF ~may_copy(new_file) THEN [result |-> TRUE, new_file |-> new_file]
    ELSE IF legacy.readable THEN [result |-> TRUE, new_file |-> legacy]
    ELSE [result |-> FALSE, new_file |-> new_file]

\* ------------------------------------------- the configuration, called directly

\* The texts a config file holds: not JSON, a JSON list, or a JSON object
\* with or without the fields.
FileTexts ==
    { [json |-> j, theme |-> Unset, timeout_steam |-> Unset] :
        j \in { "corrupt", "list" } } \cup
    { [json |-> "object", theme |-> th, timeout_steam |-> secs] :
        th \in { Unset, Some(<< "D", "a", "r", "k" >>),
                 Some(<< "p", "u", "r", "p", "l", "e" >>) },
        secs \in { Unset, Some(60), Some(2) } }

ExistingFiles ==
    { [kind |-> "file", readable |-> r, writable |-> TRUE, json |-> t.json,
       theme |-> t.theme, timeout_steam |-> t.timeout_steam] :
        r \in BOOLEAN, t \in FileTexts }

FileStates == { Absent(w) : w \in BOOLEAN } \cup ExistingFiles

\* The SRM_* variables of the environment: unset, valid or invalid.
Environs ==
    { [theme |-> th, timeout_steam |-> secs] :
        th \in { Unset, Some(Dark), Some(<< "p", "u", "r", "p", "l", "e" >>) },
        secs \in { Unset, Some(45) } }

ConfigInit ==
    /\ GuiInit
    /\ srm_runner = "SRMRunner"
    /\ ~is_windows
    /\ timeout = timeout_steam
    /\ WaitIdle
    /\ SteamIdle
    /\ config_file \in FileStates
    /\ legacy_file \in { Absent(TRUE) } \cup ExistingFiles
    /\ environ \in Environs

\* ConfigManager.load_config() is called.
CallLoadConfig ==
    /\ n_calls < MaxCalls
    /\ LET r == load_config(config_file, environ)
       IN /\ op' = [name |-> "load_config", exc |-> r.exc, config |-> r.config,
                    before |-> config_file, wrote |-> r.wrote,
                    again |-> op.name = "load_config"]
          /\ config_file' = r.file
    /\ n_calls' = n_calls + 1
    /\ UNCHANGED << legacy_file, environ, procs, timeout, wait_vars, gui_vars,
                    steam_vars, config_vars, run_vars, ui_event >>

\* AppDirectories.migrate_legacy_config(get_legacy_config_path()) is called.
CallMigrateLegacyConfig ==
    /\ n_calls < MaxCalls
    /\ LET r == migrate_legacy_config(legacy_file, config_file)
       IN /\ op' = [name |-> "migrate_legacy_config", result |-> r.result,
                    before |-> config_file, legacy_before |-> legacy_file,
                    copied |-> r.new_file # config_file,
                    copied_first |-> IF op.name = "migrate_legacy_config"
                                     THEN op.copied ELSE FALSE,
                    again |-> op.name = "migrate_legacy_config"]
          /\ config_file' = r.new_file
    /\ n_calls' = n_calls + 1
    /\ UNCHANGED << legacy_file, environ, procs, timeout, wait_vars, gui_vars,
                    steam_vars, config_vars, run_vars, ui_event >>

ConfigNext == CallLoadConfig \/ CallMigrateLegacyConfig

ConfigSpec == ConfigInit /\ [][ConfigNext]_vars

\* ------------------------------------------------------ the user commands

\* The window takes commands until root.quit() has ended its main loop.
MainLoop == ui_event # "quit"

\* The lines the export, copy and auto-detect commands have written to the
\* log.
CommandLines ==
    CopiesIn(Line(LVL_SUCCESS, "Log exported to", << "f" >>), log)
    + CopiesIn(Line(ERROR, "Failed to export logs", NoArg), log)
    + CopiesIn(Line(INFO, "Logs copied to clipboard", NoArg), log)
    + CopiesIn(Line(ERROR, "Failed to copy logs", NoArg), log)
    + CopiesIn(Line(LVL_SUCCESS, "Auto-detected SRM at", << ConfiguredPath >>),
               log)
    + CopiesIn(Line(ERROR, "Could not auto-detect SRM installation", NoArg),
               log)

\* The start button, F5 or the auto-start timer.
RequestStart == MainLoop /\ start_process

\* The settings button: _open_settings.
OpenSettings ==
    /\ MainLoop
    /\ LET shown == create_window(AppConfigFields)
           r == open_settings(shown, config_srm_path, gui_srm_path, srm_runner)
       IN /\ dialog' = shown.window
          /\ gui_srm_path' = r.srm_path
          /\ srm_runner' = r.srm_runner
    /\ ui_event' = "settings"
    /\ UNCHANGED << gui_vars, steam_vars, is_windows, config_srm_path, run_vars,
                    component_vars >>

\* SettingsDialog._save_settings: an invalid path is refused; else the path
\* and the flags are assigned to the config one after the other, and the
\* assignment of a field the config does not have raises; then save_config,
\* the lines of the log and the end of the window.
save_settings(new_path, valid, saved, old_path, fields) ==
    IF ~valid /\ new_path # AutoDetect
    THEN [exc |-> "none", srm_path |-> old_path, lines |-> << >>,
          window |-> "complete"]
    ELSE IF ~({"auto_start", "auto_close_on_success", "auto_close_delay",
               "restart_steam_after_completion"} \subseteq fields)
    THEN [exc |-> "ValueError", srm_path |-> new_path, lines |-> << >>,
          window |-> "complete"]
    ELSE IF saved
    THEN [exc |-> "none", srm_path |-> new_path,
          lines |-> << Line(LVL_SUCCESS, "Settings saved. SRM path",
                            << new_path >>),
                       Line(LVL_SUCCESS, "Auto-start", NoArg),
                       Line(LVL_SUCCESS, "Steam restart", NoArg),
                       Line(LVL_SUCCESS, "Auto-close", NoArg) >>,
          window |-> "none"]
    ELSE [exc |-> "none", srm_path |-> new_path, lines |-> << >>,
          window |-> "complete"]

\* The controls a settings window has: Save and Cancel are the last ones
\* _create_window builds.
Controls(window) ==
    IF window = "none" THEN {}
    ELSE IF window = "partial" THEN {"browse", "auto-detect", "close"}
    ELSE {"browse", "auto-detect", "close", "save", "cancel"}

\* The user works a control of the settings window.  Browse changes the path
\* entry only; Auto-detect logs what it found; Save is _save_settings;
\* Cancel and the close button destroy the window.
SettingsWindow ==
    /\ MainLoop
    /\ \E control \in Controls(dialog) :
         IF control = "browse"
         THEN UNCHANGED << log, dialog, config_srm_path >>
         ELSE IF control = "auto-detect"
         THEN /\ CommandLines < MaxCommandLines
              /\ \E detected \in BOOLEAN :
                   log' = log_message(log,
                       << IF detected
                          THEN Line(LVL_SUCCESS, "Auto-detected SRM at",
                                    << ConfiguredPath >>)
                          ELSE Line(ERROR,
                                    "Could not auto-detect SRM installation",
                                    NoArg) >>)
              /\ UNCHANGED << dialog, config_srm_path >>
         ELSE IF control = "save"
         THEN \E new_path \in SavedPaths : \E valid, saved \in BOOLEAN :
                LET r == save_settings(new_path, valid, saved,
                                       config_srm_path, AppConfigFields)
                IN /\ config_srm_path' = r.srm_path
                   /\ log' = log_message(log, r.lines)
                   /\ dialog' = r.window
         ELSE /\ dialog' = "none"
              /\ UNCHANGED << log, config_srm_path >>
    /\ ui_event' = "dialog"
    /\ UNCHANGED << status, process_count, progress, start_button_state,
                    steam_vars, srm_runner, is_windows, gui_srm_path, run_vars,
                    component_vars >>

\* _export_logs: the file dialog was cancelled, or the file was written, or
\* writing it failed.
export_logs ==
    /\ MainLoop
    /\ CommandLines < MaxCommandLines
    /\ \E chosen \in {"cancelled", "written", "failed"} :
         log' = IF chosen = "cancelled" THEN log
                ELSE IF chosen = "written"
                THEN log_message(log, << Line(LVL_SUCCESS, "Log exported to",
                                              << "f" >>) >>)
                ELSE log_message(log, << Line(ERROR, "Failed to export logs",
                                              NoArg) >>)
    /\ ui_event' = "export"
    /\ UNCHANGED << status, process_count, progress, start_button_state,
                    steam_vars, config_vars, run_vars, component_vars >>

\* _copy_logs (Control-c): the content went to the clipboard or that failed.
copy_logs ==
    /\ MainLoop
    /\ CommandLines < MaxCommandLines
    /\ \E copied \in BOOLEAN :
         log' = log_message(log,
                    << IF copied
                       THEN Line(INFO, "Logs copied to clipboard", NoArg)
                       ELSE Line(ERROR, "Failed to copy logs", NoArg) >>)
    /\ ui_event' = "copy"
    /\ UNCHANGED << status, process_count, progress, start_button_state,
                    steam_vars, config_vars, run_vars, component_vars >>

\* What the end of the main loop does to the thread of a run: the threads
\* are daemon threads, they end with the process wherever they are.
quit(at) ==
    IF at \in {"started", "step1", "step2", "step3", "finally"}
    THEN "killed" ELSE at

\* close_application: with the status RUNNING the user is asked first;
\* root.quit() ends the main loop and with it the process.
close_application ==
    /\ MainLoop
    /\ \E askyesno \in BOOLEAN :
         IF status = RUNNING /\ ~askyesno
         THEN /\ ui_event' = "close declined"
              /\ UNCHANGED pc
         ELSE /\ ui_event' = "quit"
              /\ pc' = [t \in Runs |-> quit(pc[t])]
    /\ UNCHANGED << gui_vars, steam_vars, config_vars, calls, shutdown_result,
                    verify_result, tool_result, outcome, run_progress,
                    component_vars >>

UiNext ==
    \/ RequestStart
    \/ OpenSettings
    \/ SettingsWindow
    \/ export_logs
    \/ copy_logs
    \/ close_application
    \/ \E t \in Runs : RunStep(t)

\* The window with its commands and the runs they start.
UiSpec == Init /\ [][UiNext]_vars

\* ================================================================== claims

\* The execution of automation_process by run t is in progress.
InProgress(t) == pc[t] \in {"step1", "step2", "step3", "finally"}

\* Run t has reached the end of its steps (the finally clause is next).
Ended(t) == pc[t] = "finally"

\* Run t has called op.
Called(t, name) == name \in Range(calls[t])

\* execute_command of run t returned with success = TRUE.
ToolSucceeded(t) == tool_result[t].exc = "none" /\ tool_result[t].success

\* C1: execute_command is invoked only after the step-2 is_running() of the
\* same run returned false; a run whose verification returned true has ended
\* Failed without invoking execute_command.
C1_ToolOnlyAfterVerifiedClosed ==
    \A t \in Runs :
        /\ (pc[t] = "step3" \/ Called(t, "execute_command"))
              => /\ verify_result[t] = "closed"
                 /\ SubSeq(calls[t], 1, 2) = << "graceful_shutdown", "is_running" >>
        /\ verify_result[t] = "running"
              => /\ Ended(t)
                 /\ outcome[t] = FAILED
                 /\ ~Called(t, "execute_command")
                 /\ tool_result[t] = NoToolResult

C1_Witness ==
    \E t \in Runs :
        /\ Ended(t)
        /\ calls[t] = << "graceful_shutdown", "is_running", "execute_command" >>
        /\ verify_result[t] = "closed"

\* C2: at most one execution of automation_process is in progress at a time.
C2_AtMostOneRunInProgress ==
    Cardinality({ t \in Runs : InProgress(t) }) <= 1

\* C3: a start_process call made while the status is Running leaves the
\* status, process_count, the log, the progress and the start button as they
\* were and starts no thread.
C3_StartRefusedWhileRunning ==
    [][(start_process /\ status = RUNNING)
          => UNCHANGED << status, process_count, log, progress,
                          start_button_state, pc >>]_vars

C3_Witness ==
    /\ status = RUNNING
    /\ ui_event = "refused"
    /\ \E t \in Runs : InProgress(t)

\* C4: a run never leaves the state machine stuck in Running.  A run at its
\* end has set the status Success or Failed, and Failed when a step raised;
\* every run that set the status to Running reaches its end; a status of
\* Running is always followed by Success or Failed.
C4_NeverStuckInRunning ==
    /\ [](\A t \in Runs : Ended(t) =>
            /\ outcome[t] \in {SUCCESS, FAILED}
            /\ (shutdown_result[t] \notin {"success", "failure"}
                  => outcome[t] = FAILED)
            /\ (tool_result[t].exc \notin {"not called", "none"}
                  => outcome[t] = FAILED))
    /\ \A t \in Runs : (pc[t] = "step1") ~> (pc[t] = "done")
    /\ (status = RUNNING) ~> (status \in {SUCCESS, FAILED})

C4_Witness ==
    \E t \in Runs :
        /\ Ended(t)
        /\ shutdown_result[t] = "AttributeError"
        /\ outcome[t] = FAILED
        /\ status = FAILED

C6_SuccessOnlyAfterAllSteps ==
    \A t \in Runs :
        /\ outcome[t] = SUCCESS
              => /\ calls[t] = << "graceful_shutdown", "is_running",
                                 "execute_command" >>
                 /\ shutdown_result[t] \in {"success", "failure"}
                 /\ verify_result[t] = "closed"
                 /\ ToolSucceeded(t)
        /\ (Ended(t) /\ ToolSucceeded(t)) => outcome[t] = SUCCESS

C6_Witness ==
    \E t \in Runs : Ended(t) /\ ToolSucceeded(t) /\ outcome[t] = SUCCESS

\* C7: a run whose graceful_shutdown did not give success still goes on to the
\* step-2 verification.
C7_ShutdownFailureProceedsToVerification ==
    \A t \in Runs :
        (Ended(t) /\ shutdown_result[t] # "success")
            => verify_result[t] # NoResult

\* C8: the last progress update of a run that ended Failed is step 0, 0%.
C8_FailedResetsProgress ==
    \A t \in Runs :
        (Ended(t) /\ outcome[t] = FAILED) => run_progress[t] = << 0, 0 >>

\* C9: the step in which execute_command raises a tool error or returns
\* success = FALSE sets the status Failed and writes the error text, or the
\* captured output when it is not empty, to the log at error level.
C9_ToolFailureLogged ==
    [][\A t \in Runs :
          (pc[t] = "step3" /\ pc'[t] = "finally" /\ ~ToolSucceeded(t)')
             => /\ outcome'[t] = FAILED
                /\ status' = FAILED
                /\ tool_result'[t].exc = "SRMError"
                      => \E l \in BagToSet(log' (-) log) :
                            /\ l.level = ERROR
                            /\ l.text = "Operation failed"
                            /\ Len(l.arg) >= 1
                /\ (tool_result'[t].exc = "none"
                        /\ tool_result'[t].output # << >>)
                      => \E l \in BagToSet(log' (-) log) :
                            /\ l.level = ERROR
                            /\ l.arg = tool_result'[t].output]_vars

C9_Witness ==
    \E t \in Runs :
        /\ Ended(t)
        /\ tool_result[t].exc = "none"
        /\ ~tool_result[t].success
        /\ tool_result[t].output # << >>
        /\ outcome[t] = FAILED
        /\ BagIn(Line(ERROR, "Error", tool_result[t].output), log)

\* C10: when the tool path fails validation, execute_command raises SRMError
\* without reaching subprocess.run, and the run ends Failed.
C10_InvalidPathRaisesBeforeSpawn ==
    \A t \in Runs :
        (Called(t, "execute_command") /\ ~tool_result[t].valid)
            => /\ tool_result[t].exc = "SRMError"
               /\ ~tool_result[t].spawned
               /\ Ended(t)
               /\ outcome[t] = FAILED

C10_Witness ==
    \E t \in Runs :
        /\ Ended(t)
        /\ tool_result[t].reason = "File does not exist"
        /\ tool_result[t].exc = "SRMError"
        /\ ~tool_result[t].spawned
        /\ outcome[t] = FAILED

\* C11: an execute_command whose subprocess.run ran into the timeout raises
\* SRMError with the configured timeout in its message and returns nothing,
\* and the run ends Failed; any failure of subprocess.run is raised as
\* SRMError, so the only exception execute_command raises is SRMError.
C11_TimeoutRaisesToolError ==
    \A t \in Runs :
        /\ tool_result[t].kind = "timeout"
              => /\ tool_result[t].exc = "SRMError"
                 /\ tool_result[t].message = "Steam ROM Manager timed out after"
                 /\ tool_result[t].arg = << ToString(timeout_srm) >>
                 /\ ~tool_result[t].success
                 /\ Ended(t)
                 /\ outcome[t] = FAILED
        /\ tool_result[t].kind = "oserror"
              => /\ tool_result[t].exc = "SRMError"
                 /\ outcome[t] = FAILED
        /\ tool_result[t].exc \in {"not called", "none", "SRMError"}

C11_Witness ==
    \E t \in Runs :
        /\ Ended(t)
        /\ tool_result[t].kind = "timeout"
        /\ tool_result[t].exc = "SRMError"
        /\ tool_result[t].arg = << ToString(timeout_srm) >>
        /\ outcome[t] = FAILED

\* C12: a wait_for_closure call that returned False (every poll found the
\* target running) has slept, in all, at least timeout seconds and less than
\* timeout + 3 seconds, for every timeout from 5 to 300; and it returns
\* True only from a poll that found the target stopped, before any further
\* sleep.
C12_WaitBoundedOvershoot ==
    /\ wait_pc = "returned" /\ wait_result = FALSE
          => /\ timeout * TicksPerSecond <= total_waited
             /\ total_waited < (timeout + 3) * TicksPerSecond
    /\ wait_pc = "returned" /\ wait_result = TRUE
          => total_waited < timeout * TicksPerSecond
    /\ wait_pc = "loop" => total_waited < (timeout + 3) * TicksPerSecond

C12_Witness ==
    /\ wait_pc = "returned"
    /\ wait_result = FALSE
    /\ timeout = MaxTimeout
    /\ total_waited >= MaxTimeout * TicksPerSecond

\* C13: a kill_processes call whose enumeration finds no Steam process
\* returns True, sends no terminate or kill signal, takes no settle delay and
\* enumerates once; it leaves the process set and the SteamManager fields as
\* they are, so that a further call in that state does the same.
C13_KillOnEmptySetIsNoOp ==
    [][(/\ op'.name = "kill_processes" /\ n_calls' = n_calls + 1
        /\ procs = {}
        /\ op'.steps[1] = Step("enumerate", "none") /\ op'.found = {})
          => /\ op'.result = TRUE
             /\ op'.exc = "none"
             /\ op'.signals = << >>
             /\ op'.sleeps = 0
             /\ op'.enumerations = 1
             /\ procs' = procs
             /\ UNCHANGED steam_vars]_vars

C13_Witness ==
    /\ op.name = "kill_processes"
    /\ op.first = {}
    /\ op.again
    /\ op.result = TRUE
    /\ op.signals = << >>
    /\ n_calls = 2

\* C14: a graceful_shutdown call whose first is_running() check finds no
\* Steam process calls neither kill_processes nor wait_for_closure, sends no
\* signal, sets was_running_before_shutdown to False, leaves
\* steam_executable_path and the process set as they are and returns success.
C14_ShutdownWhenNotRunning ==
    [][(op'.name = "graceful_shutdown" /\ n_calls' = n_calls + 1 /\ procs = {})
          => /\ op'.called = << >>
             /\ op'.signals = << >>
             /\ op'.sleeps = 0
             /\ op'.exc = "none"
             /\ op'.result = TRUE
             /\ was_running_before_shutdown' = FALSE
             /\ steam_executable_path' = steam_executable_path
             /\ procs' = procs]_vars

C14_Witness ==
    /\ op.name = "graceful_shutdown"
    /\ op.first = {}
    /\ op.result = TRUE
    /\ op.called = << >>
    /\ was_running_before_shutdown = FALSE

\* C15: validate_path on a path that can be examined says valid exactly when
\* the path exists, is a regular file and, on Windows, its text ends with
\* .exe in any case; and each rejection has its own reason: an unconfigured
\* (empty) path, then a missing file, then a path that is not a file, then a
\* wrong extension.
C15_ValidatePathReasons ==
    (op.name = "validate_path" /\ op.at # "unreadable")
        => LET exe == endswith(Lower(op.srm_path), DotExe) IN
           /\ op.valid <=> (op.at = "file" /\ (is_windows => exe))
           /\ op.reason =
                 IF op.srm_path = << >> THEN "No SRM path specified"
                 ELSE IF op.at = "missing" THEN "File does not exist"
                 ELSE IF op.at = "dir" THEN "Path is not a file"
                 ELSE IF is_windows /\ ~exe
                 THEN "Must be an .exe file on Windows"
                 ELSE "Valid executable"

\* C16: the step in which execute_command returns success, in a run whose
\* shutdown found the target not running and whose verification found it
\* closed, sets the status Success and the progress (4, 100) and logs the
\* returned output O in an "Output" line when O is not empty, and no
\* "Output" line when it is empty.
C16_SuccessfulRunLogsOutput ==
    [][\A t \in Runs :
          (pc[t] = "step3" /\ pc'[t] = "finally" /\ ToolSucceeded(t)'
              /\ shutdown_result[t] = "success" /\ verify_result[t] = "closed")
             => /\ outcome'[t] = SUCCESS
                /\ status' = SUCCESS
                /\ run_progress'[t] = << 4, 100 >>
                /\ progress' = << 4, 100 >>
                /\ tool_result'[t].output # << >>
                      => BagIn(Line(INFO, "Output", tool_result'[t].output),
                               log' (-) log)
                /\ tool_result'[t].output = << >>
                      => \A l \in BagToSet(log' (-) log) : l.text # "Output"]_vars

C16_Witness ==
    \E t \in Runs :
        /\ Ended(t)
        /\ ToolSucceeded(t)
        /\ shutdown_result[t] = "success"
        /\ tool_result[t].output = << "x" >>
        /\ outcome[t] = SUCCESS
        /\ run_progress[t] = << 4, 100 >>
        /\ BagIn(Line(INFO, "Output", << "x" >>), log)

\* C17: no SteamManager operation raises: whatever processes are running,
\* a called operation ends by returning its result.
C17_ControllerNeverRaises ==
    op.name \in {"kill_processes", "graceful_shutdown", "find_steam_executable"}
        => op.exc = "none"

\* C18: no step taken by the background thread of a run changes what the
\* window shows (the status indicator, the log, the progress, the start
\* button): such changes are made by the presentation thread only.
C18_ThreadNeverMutatesPresentation ==
    [][\A t \in Runs :
          (pc[t] # "idle" /\ pc'[t] # pc[t])
             => UNCHANGED << status, log, progress, start_button_state >>]_vars

\* The status transitions of the run state machine.
AllowedTransitions ==
    { << READY, RUNNING >>, << RUNNING, SUCCESS >>, << RUNNING, FAILED >>,
      << SUCCESS, READY >>, << FAILED, READY >>, << CANCELLED, READY >> }

\* C19: every change of the status is Ready -> Running, Running -> Success,
\* Running -> Failed, or terminal -> Ready made by a start_process request
\* that starts a run.
C19_StatusTransitions ==
    [][status' # status
          => /\ << status, status' >> \in AllowedTransitions
             /\ status' = READY
                   => \E t \in Runs : pc[t] = "idle" /\ pc'[t] = "started"]_vars

\* C20: when a run starts while no other run is active,
\* was_running_before_shutdown is False and steam_executable_path is None:
\* nothing an earlier run recorded is left.
C20_TargetStateResetAtRunStart ==
    \A t \in Runs :
        (/\ pc[t] \in {"started", "step1"}
         /\ \A u \in Runs \ {t} : pc[u] \in {"idle", "done"})
            => /\ was_running_before_shutdown = FALSE
               /\ steam_executable_path = None

\* The config file existed and could not be loaded: it cannot be read, is not
\* JSON, or holds values that fail validation.
Unloadable(file) ==
    /\ file.kind = "file"
    /\ \/ ~file.readable
       \/ file.json = "corrupt"
       \/ /\ file.json = "object"
          /\ AppConfig(json_data(file), NoEnviron).exc # "none"

\* C21: load_config falls back to the default settings when the existing
\* config file fails validation, is corrupted JSON or cannot be read, it
\* leaves that file's content unchanged, and it writes the file only when
\* the file did not exist.
C21_LoadConfigFallsBackToDefaults ==
    op.name = "load_config" =>
        /\ Unloadable(op.before) =>
              /\ op.exc = "none"
              /\ op.config = Defaults
              /\ config_file = op.before
        /\ op.wrote => op.before.kind = "absent"

\* C22: migrate_legacy_config never changes an existing new-location file,
\* never changes the legacy file, copies the legacy file only when it exists
\* and the new-location file does not, and a second application changes
\* nothing more.
C22_MigrationNonDestructive ==
    op.name = "migrate_legacy_config" =>
        /\ legacy_file = op.legacy_before
        /\ op.before.kind = "file" => config_file = op.before
        /\ config_file # op.before =>
              /\ op.legacy_before.kind = "file"
              /\ op.before.kind = "absent"
              /\ config_file = op.legacy_before
        /\ op.again => config_file = op.before

\* The legacy file was copied to the free new location, and a second
\* application has found it there.
C22_Witness ==
    /\ op.name = "migrate_legacy_config"
    /\ op.again
    /\ op.copied_first
    /\ ~op.copied
    /\ config_file = legacy_file

\* C23: a kill_processes call that returns gives False exactly when some
\* terminate() or kill() call raised an exception other than NoSuchProcess
\* and AccessDenied; those two alone leave the result True, also when a
\* process that denied access is still alive.
C23_KillResultIffUnexpectedError ==
    (op.name = "kill_processes" /\ op.exc = "none")
        => (op.result = FALSE
              <=> \E i \in DOMAIN op.signals : op.signals[i].outcome = "error")

\* A call returned True although kill() was denied on a process that is
\* still alive.
C23_Witness ==
    /\ op.name = "kill_processes"
    /\ op.exc = "none"
    /\ op.result = TRUE
    /\ \E i \in DOMAIN op.signals :
         /\ op.signals[i].sig = "kill"
         /\ op.signals[i].outcome = "AccessDenied"
         /\ op.signals[i].pid \in procs

\* The positions in the steps of a kill_processes call that hold name.
StepsOf(name) == { i \in DOMAIN op.steps : op.steps[i].sig = name }

\* C24: a kill_processes call that found processes sends terminate to every
\* process of its first enumeration, whatever the earlier terminate calls did,
\* then takes the settle delay once, then enumerates again, and then sends
\* kill to exactly the processes of that second enumeration: no kill comes
\* before a terminate or before the delay.
C24_TwoPhasesNoEarlyAbort ==
    (op.name = "kill_processes" /\ op.found # {})
        => /\ { op.steps[i].pid : i \in StepsOf("terminate") } = op.found
           /\ Cardinality(StepsOf("terminate")) = Cardinality(op.found)
           /\ Cardinality(StepsOf("sleep")) = 1
           /\ Cardinality(StepsOf("enumerate")) = 2
           /\ \A i \in StepsOf("terminate") : \A j \in StepsOf("sleep") : i < j
           /\ \A i \in StepsOf("sleep") : \E j \in StepsOf("enumerate") : i < j
           /\ \A i \in StepsOf("kill") :
                /\ \A j \in StepsOf("sleep") : j < i
                /\ \A j \in StepsOf("enumerate") : j < i
           /\ { op.steps[i].pid : i \in StepsOf("kill") } = op.second
           /\ Cardinality(StepsOf("kill")) = Cardinality(op.second)

\* The first terminate() raised an unexpected exception, the next process was
\* signalled all the same, and after the delay kill was sent.
C24_Witness ==
    /\ op.name = "kill_processes"
    /\ \E i \in StepsOf("terminate") : \E j \in StepsOf("terminate") :
         /\ i < j
         /\ op.steps[i].outcome = "error"
    /\ StepsOf("kill") # {}
    /\ op.result = FALSE

\* The sleeps a wait_for_closure call has taken: one after every poll that
\* found the target running.
Sleeps == IF wait_pc = "returned" /\ wait_result = TRUE THEN polls - 1 ELSE polls

\* The k-th polling interval in ticks: 0.5 s, 0.75 s, 1.125 s, 1.6875 s,
\* 2.53125 s, then 3 s.
Interval(k) ==
    IF k <= 5 THEN << 32, 48, 72, 108, 162 >>[k] ELSE 3 * TicksPerSecond

RECURSIVE SumIntervals(_)
SumIntervals(n) == IF n = 0 THEN 0 ELSE SumIntervals(n - 1) + Interval(n)

\* The number of polls within the limit of secs seconds: five during the
\* first 6.59375 s, then one for every 3 s begun.
PollBound(secs) ==
    IF secs * TicksPerSecond <= SumIntervals(5) THEN 5
    ELSE 5 + ((secs * TicksPerSecond - SumIntervals(5)) + 3 * TicksPerSecond - 1)
               \div (3 * TicksPerSecond)

\* C25: the sleeps of a wait_for_closure call last 0.5 s, 0.75 s, 1.125 s,
\* 1.6875 s, 2.53125 s and then 3 s each: the next interval is never shorter
\* than the one before and never longer than 3 s, and the number of
\* is_running polls is bounded by the limit.
C25_PollingIntervals ==
    wait_pc \in {"loop", "returned"}
        => /\ wait_time = Interval(Sleeps + 1)
           /\ total_waited = SumIntervals(Sleeps)
           /\ \A k \in 1..Sleeps :
                /\ Interval(k) <= Interval(k + 1)
                /\ Interval(k + 1) = Min((Interval(k) * 3) \div 2, 3 * TicksPerSecond)
           /\ wait_time <= 3 * TicksPerSecond
           /\ polls <= PollBound(timeout)

\* A call with the longest limit polled as often as the bound allows, the
\* last sleeps lasting 3 s.
C25_Witness ==
    /\ wait_pc = "returned"
    /\ wait_result = FALSE
    /\ timeout = MaxTimeout
    /\ polls = PollBound(MaxTimeout)
    /\ wait_time = 3 * TicksPerSecond

\* C26: wait_for_closure returns True from the first poll that finds the
\* target not running, without a sleep when that is the first poll, and it
\* returns False only when the target is still running once the time waited
\* has reached the limit: a target that stopped during the last sleep is
\* reported as closed.
C26_TimeoutOnlyIfStillRunning ==
    wait_pc = "returned"
        => /\ wait_result = TRUE /\ polls = 1 => total_waited = 0
           /\ wait_result = FALSE
                => /\ total_waited >= max_wait
                   /\ procs # {}

\* The names of the operations a graceful_shutdown call made, from the n-th on.
CalledFrom(n) == SubSeq(op.called, n, Len(op.called))

\* C27: a graceful_shutdown call whose first is_running() check finds the
\* target running sets was_running_before_shutdown, then discovers and stores
\* the executable path, then calls kill_processes and then wait_for_closure;
\* it returns failure without waiting when kill_processes gave False, failure
\* when the wait timed out, and success otherwise.
C27_ShutdownWhenRunning ==
    (op.name = "graceful_shutdown" /\ op.running)
        => /\ op.exc = "none"
           /\ was_running_before_shutdown = TRUE
           /\ Len(op.called) >= 2
           /\ SubSeq(op.called, 1, 2) = << "find_steam_executable", "kill_processes" >>
           /\ CalledFrom(3) \in { << >>, << "wait_for_closure" >> }
           /\ (\E i \in DOMAIN op.signals : op.signals[i].outcome = "error")
                 <=> CalledFrom(3) = << >>
           /\ op.result => CalledFrom(3) = << "wait_for_closure" >>

\* C28: start_steam takes the path given, else the stored one, else a fresh
\* discovery; without a path, or with a path that does not exist, it returns
\* failure with a "not found" message and launches nothing; after a launch
\* it returns success exactly when is_running() is true after the 2 s delay,
\* and says "started but not detected" otherwise.
C28_StartSteamResolution ==
    op.name = "start_steam"
        => /\ op.exc = "none"
           /\ op.resolved = (IF truthy(op.given) THEN op.given
                             ELSE IF truthy(op.stored) THEN op.stored
                             ELSE op.probe)
           /\ (~truthy(op.resolved) \/ ~op.exists)
                 => /\ ~op.result
                    /\ ~op.launched
                    /\ op.message \in { "Steam executable not found",
                                        "Steam executable not found at" }
           /\ op.launched
                 => /\ op.slept = 2
                    /\ op.result <=> op.running
                    /\ ~op.result
                          => op.message
                               = "Steam process started but not detected as running"

\* The processes of the table that show a Steam name, in any case, and can
\* be read.
Matching(table) ==
    { p \in DOMAIN table : p # SystemPid /\ table[p].state = "ok" }

\* C29: is_running returns True exactly when the enumeration returns at least
\* one matching process, and an exception of the enumeration gives False
\* instead of leaving is_running.
C29_IsRunningIffFound ==
    op.name = "is_running"
        => /\ op.exc = "none"
           /\ op.result <=> (op.scan_exc = "none" /\ Matching(op.table) # {})
           /\ op.scan_exc # "none" => op.result = FALSE

\* The enumeration raised while a Steam process was running, and is_running
\* returned False.
C29_Witness ==
    /\ op.name = "is_running"
    /\ op.scan_exc = "AttributeError"
    /\ op.exc = "none"
    /\ op.result = FALSE
    /\ Matching(op.table) # {}

\* C30: _get_steam_processes returns exactly the processes whose name is one
\* of STEAM_PROCESSES in any case, skips an entry whose read raises
\* NoSuchProcess, AccessDenied or ZombieProcess, and never fails as a whole
\* because of one entry, an entry without a name included.
C30_EnumerationExactAndTotal ==
    op.name = "_get_steam_processes"
        => /\ op.exc = "none"
           /\ op.found = Matching(op.table)

\* out is text without its leading and trailing blanks.
Trimmed(out, text) ==
    /\ out # << >> => out[1] # " " /\ out[Len(out)] # " "
    /\ \E i \in 0..Len(text) : \E j \in i..Len(text) :
         /\ out = SubSeq(text, i + 1, j)
         /\ \A k \in (1..i) \cup ((j + 1)..Len(text)) : text[k] = " "

\* dir is the directory part of the relative path text.
ParentOf(dir, text) ==
    IF \A i \in DOMAIN text : text[i] # "/" THEN dir = << "." >>
    ELSE \E file \in { SubSeq(text, i, Len(text)) : i \in DOMAIN text } :
           /\ text = dir \o << "/" >> \o file
           /\ \A i \in DOMAIN file : file[i] # "/"

\* C31: when the tool exits within the timeout, execute_command returns
\* success exactly for exit code zero and, for every exit code, stdout
\* followed by stderr without the surrounding blanks; the tool was started
\* with the command as its only argument and in the directory of the
\* executable.
C31_CompletedToolResult ==
    (op.name = "execute_command" /\ op.kind = "exit")
        => /\ op.exc = "none"
           /\ op.success <=> op.returncode = 0
           /\ Trimmed(op.output, op.stdout \o op.stderr)
           /\ op.cmd = << Path(op.srm_path), op.command >>
           /\ ParentOf(op.cwd, Path(op.srm_path))

\* The tool in a directory exited with a non-zero code and blanks around its
\* output.
C31_Witness ==
    /\ op.name = "execute_command"
    /\ op.kind = "exit"
    /\ op.returncode = 1
    /\ ~op.success
    /\ op.stdout = << " ", "x" >>
    /\ op.stderr = << " " >>
    /\ op.output = << "x" >>
    /\ op.cwd = << "d" >>

\* C32: within one run the step indexes of successive progress updates do
\* not decrease until a failure reset (step 0), and every progress update
\* with a step index k in 1..4 carries the percentage 25 * k.
C32_ProgressMonotonic ==
    [][\A t \in Runs :
          (run_progress'[t] # << >> /\ run_progress'[t] # run_progress[t])
             => /\ run_progress'[t][1] \in 1..4
                    => run_progress'[t][2] = 25 * run_progress'[t][1]
                /\ (run_progress[t] # << >> /\ run_progress'[t][1] # 0)
                    => run_progress'[t][1] >= run_progress[t][1]]_vars

\* C33: while the status is RUNNING no step of a run and no user command
\* (start, settings, export, close) sets the status CANCELLED or ends a run
\* before its remaining steps.
C33_NoCancelWhileRunning ==
    [][status = RUNNING
          => /\ status' # CANCELLED
             /\ \A t \in Runs : pc'[t] = "killed" => pc[t] = "killed"]_vars

\* C34: a SteamManager built with a timeout of zero or less is rejected
\* with a configuration error, so no wait_for_closure call uses a limit that
\* is not positive.
C34_InvalidTimeoutRejected ==
    /\ (op.name = "SteamManager" /\ op.arg <= 0) => op.exc = "ConfigError"
    /\ wait_pc # "idle" => max_wait > 0

\* C35: while graceful_shutdown, the verification or execute_command of a
\* run is under way the status is RUNNING, and the status leaves RUNNING
\* only in the step that takes a run to its end.
C35_RunningWhileStepInProgress ==
    /\ [](\A t \in Runs : pc[t] \in {"step1", "step2", "step3"}
                             => status = RUNNING)
    /\ [][(status = RUNNING /\ status' # RUNNING)
             => \E t \in Runs : pc[t] \in {"step1", "step2", "step3"}
                                /\ pc'[t] = "finally"]_vars

\* C36: the start button is disabled when a run begins, enabled again when
\* the run leaves automation_process on whatever path, and never enabled
\* while the steps of some run are still in progress.
C36_ButtonDisabledWhileRunning ==
    /\ [](\A t \in Runs : InProgress(t) => start_button_state = DISABLED)
    /\ [][\A t \in Runs :
             /\ (pc[t] = "started" /\ pc'[t] = "step1")
                   => start_button_state' = DISABLED
             /\ (pc[t] = "finally" /\ pc'[t] = "done")
                   => start_button_state' = NORMAL]_vars

C38_NotConfiguredStartsNoRun ==
    [][(start_process /\ status # RUNNING /\ srm_runner = None)
          => /\ UNCHANGED << status, process_count, progress,
                             start_button_state, run_vars >>
             /\ log' = log (+) SetToBag({ Line(ERROR,
                    "Cannot start: Steam ROM Manager path not configured",
                    NoArg) })
             /\ dialog' = "complete"]_vars

\* Number of calls of an operation that run t has made.
Times(t, name) == Cardinality({ i \in DOMAIN calls[t] : calls[t][i] = name })

\* C39: no step is retried.  A run at its end has called graceful_shutdown
\* once, the step-2 is_running() once and execute_command at most once;
\* process_count is the number of runs started; every start of a run but the
\* first clears the log before it writes its first line.
C39_NoRetry ==
    /\ [](\A t \in Runs : Ended(t) =>
            /\ Times(t, "graceful_shutdown") = 1
            /\ Times(t, "is_running") = 1
            /\ Times(t, "execute_command") <= 1)
    /\ [](process_count = Cardinality({ t \in Runs : pc[t] # "idle" }))
    /\ [][process_count' = process_count + 1
             => log' = log_message(IF process_count > 0 THEN EmptyBag ELSE log,
                    << Line(INFO, "Starting Steam ROM Manager automation...",
                            NoArg) >>)]_vars

====
